---------------------------- MODULE Spec2Model ----------------------------
(***************************************************************************)
(* A model of AdapterGPFE: the biology fine-tuning driver                  *)
(* (bio/finetune.py) and the adapter-augmented GNN encoders and prediction *)
(* heads of the biology and chemistry domains (bio/adapterGPFE.py,         *)
(* chem/adapterGPFE.py).                                                   *)
(*                                                                         *)
(* Conventions.                                                            *)
(*  - A Python float that may be not-a-number is a record                  *)
(*    [nan, num, den]; comparisons follow IEEE (every comparison with      *)
(*    NaN is false) and are made by cross-multiplication.                  *)
(*  - A Python string that the code slices is a sequence of characters.    *)
(*  - A tensor is modelled by its shape (a sequence of sizes) and, where   *)
(*    the values matter, by its rows of exact rational entries.  What a    *)
(*    convolution computes with its own weights (its output, the           *)
(*    aggregated messages, the node embedding) is drawn from a small set.  *)
(*  - torch_geometric's add_self_loops returns the pair                    *)
(*    (edge_index, edge_weight); the sources index that pair when they     *)
(*    call propagate.                                                      *)
(*  - Line 377 of bio/adapterGPFE.py does not parse.  Every other function *)
(*    of that file is modelled from its own body.                          *)
(***************************************************************************)
EXTENDS Integers, Sequences, FiniteSets, TLC

VARIABLES
    \* bio/finetune.py main
    args,               \* the parsed command line
    d_pc,               \* position of main: setup, loop, returned, raised
    d_exc,              \* the exception main ended with
    epoch,              \* the next epoch of the loop
    best_val,
    select_acc_easy,
    hist,               \* the (val_acc, test_acc_easy) pairs of the epochs run
    ret,                \* the value main returned
    \* bio/finetune.py eval
    y_true,
    y_scores,
    e_i,                \* the task index of eval's loop
    roc_list,
    e_pc,               \* position of eval: loop, returned, raised
    e_ret,              \* the value eval returned
    \* GNN.compute_bottleneck_dim, applied layer by layer
    min_bottleneck_dim,
    max_bottleneck_dim,
    total_layers,
    layer,              \* the next layer index to compute
    widths,             \* the widths computed for layers 0..layer-1
    \* construction of an encoder (GNN) or a head (AdapterGPFE_graphpred)
    cfg,                \* the arguments of the constructor call
    model,              \* the object constructed, NoModel before and on error
    c_exc,              \* the exception the constructor raised
    \* one call of a convolution layer's forward
    conv_in,            \* the layer and the arguments of the call
    conv_res,           \* what the call computed
    \* forward calls of a constructed model (cfg, model), and its training
    opt_steps,          \* optimizer steps taken since construction
    fwd_calls,          \* forward calls made since construction
    fwd_in,             \* the arguments of the last forward call
    fwd_res,            \* what the last forward call computed
    \* from_pretrained, the optimizer's parameter groups and its steps
    t_cfg,              \* the encoder the head was constructed with, and args.lr
    params,             \* the tensors of the head and of the prompt, by name
    checkpoint,         \* the dictionary torch.load returned
    param_groups,       \* optimizer.param_groups
    t_pc,               \* position: built, loaded, grouped, optim, raised
    t_exc,              \* the exception that ended the set-up
    t_steps,            \* optimizer steps taken
    \* one call of GCNConv.norm
    norm_in,            \* the edge index and num_nodes of the call
    norm_res,           \* the tensor the call returned
    \* one chem GINConv, its set_prompt and forward calls
    gin,                \* the layer's attributes
    hook_calls,         \* calls made on the layer so far
    \* one GINConv of either domain over a sequence of forward calls
    glayer,             \* the layer: its domain and its attributes
    g_in,               \* the arguments of the last call
    g_rets              \* what every call so far raised or returned

driverVars == <<args, d_pc, d_exc, epoch, best_val, select_acc_easy, hist, ret>>
evalVars == <<y_true, y_scores, e_i, roc_list, e_pc, e_ret>>
scheduleVars == <<min_bottleneck_dim, max_bottleneck_dim, total_layers, layer, widths>>
buildVars == <<cfg, model, c_exc>>
convVars == <<conv_in, conv_res>>
fwdVars == <<opt_steps, fwd_calls, fwd_in, fwd_res>>
tuneVars == <<t_cfg, params, checkpoint, param_groups, t_pc, t_exc, t_steps>>
normVars == <<norm_in, norm_res>>
hookVars == <<gin, hook_calls>>
auxVars == <<glayer, g_in, g_rets>>
vars == <<driverVars, evalVars, scheduleVars, buildVars, convVars, fwdVars,
          tuneVars, normVars, hookVars, auxVars>>

(***************************************************************************)
(* Bounds.                                                                 *)
(***************************************************************************)
MaxEpochs == 3
AUCDen == 2
NumSamples == 2
NumTasks == 2
MaxScore == 1
MaxBottleneck == 16
NegBottleneck == 1
MaxTotalLayers == 5
MaxNumLayer == 5
EmbDimSmall == 2
EmbDimLarge == 64
MaxInitWeight == 2
MaxNodes == 2
MaxEdges == 2
MaxFwdLayers == 3
MaxFwdEdges == 1
MaxHidden == 1
MaxArgs == 6
MaxSteps == 1
MaxGating == 2
MaxStepWeight == 1

(***************************************************************************)
(* Floats.                                                                 *)
(***************************************************************************)
NaN == [nan |-> TRUE, num |-> 0, den |-> 1]
Rat(n, d) == [nan |-> FALSE, num |-> n, den |-> d]
Zero == Rat(0, 1)

\* a > b of two floats: false when either is NaN
FGt(a, b) == ~a.nan /\ ~b.nan /\ a.num * b.den > b.num * a.den
\* a == b of two floats: false when either is NaN
FEq(a, b) == ~a.nan /\ ~b.nan /\ a.num * b.den = b.num * a.den
\* a + b of two floats: NaN when either is NaN
FAdd(a, b) ==
    IF a.nan \/ b.nan THEN NaN
    ELSE Rat(a.num * b.den + b.num * a.den, a.den * b.den)
\* a / n of a float and a positive int
FDivInt(a, n) == IF a.nan THEN NaN ELSE Rat(a.num, a.den * n)

\* sum(lst): the builtin starts from 0 and adds the items in order
RECURSIVE PySum(_)
PySum(lst) ==
    IF lst = <<>> THEN Zero
    ELSE FAdd(PySum(SubSeq(lst, 1, Len(lst) - 1)), lst[Len(lst)])

(***************************************************************************)
(* bio/finetune.py eval, lines 55-66.                                      *)
(***************************************************************************)
Samples == 1..NumSamples
Tasks == 1..NumTasks

\* np.sum(y_true[:, i] == c)
CountLabel(y, i, c) == Cardinality({s \in Samples : y[s][i] = c})

\* sklearn's roc_auc_score of one task with both classes present: the
\* share of (positive, negative) pairs ranked right, a tie counting half
roc_auc_score(y, sc, i) ==
    LET pos == {s \in Samples : y[s][i] = 1}
        neg == {s \in Samples : y[s][i] = 0}
        gt == Cardinality({pr \in pos \X neg : sc[pr[1]][i] > sc[pr[2]][i]})
        tie == Cardinality({pr \in pos \X neg : sc[pr[1]][i] = sc[pr[2]][i]})
    IN  Rat(2 * gt + tie, 2 * Cardinality(pos) * Cardinality(neg))

\* lines 61-64: the entry appended for task i
RocEntry(y, sc, i) ==
    IF CountLabel(y, i, 1) > 0 /\ CountLabel(y, i, 0) > 0
    THEN roc_auc_score(y, sc, i)
    ELSE NaN

\* line 66
EvalReturn(lst) == FDivInt(PySum(lst), Len(lst))

IdleEval ==
    /\ y_true = <<>>
    /\ y_scores = <<>>
    /\ e_i = 0
    /\ roc_list = <<>>
    /\ e_pc = "idle"
    /\ e_ret = NaN

InitEval ==
    /\ y_true \in [Samples -> [Tasks -> {0, 1}]]
    /\ y_scores \in [Samples -> [Tasks -> 0..MaxScore]]
    /\ e_i = 1
    /\ roc_list = <<>>
    /\ e_pc = "loop"
    /\ e_ret = NaN

\* one iteration of the loop of lines 59-64
EvalTask ==
    /\ e_pc = "loop"
    /\ e_i <= NumTasks
    /\ roc_list' = Append(roc_list, RocEntry(y_true, y_scores, e_i))
    /\ e_i' = e_i + 1
    /\ UNCHANGED <<y_true, y_scores, e_pc, e_ret>>

\* line 66
EvalDone ==
    /\ e_pc = "loop"
    /\ e_i > NumTasks
    /\ e_ret' = EvalReturn(roc_list)
    /\ e_pc' = "returned"
    /\ UNCHANGED <<y_true, y_scores, e_i, roc_list>>

(***************************************************************************)
(* bio/finetune.py main.                                                   *)
(***************************************************************************)
Splits == {"random", "species", "bogus"}
TuningTypes == {"gpfe", "none"}

\* what eval can return: NaN, or a mean AUC in [0, 1]
AUCVals == {NaN} \cup {Rat(k, AUCDen) : k \in 0..AUCDen}

IdleDriver ==
    /\ args = [split |-> "species", tuning_type |-> "gpfe", epochs |-> 0]
    /\ d_pc = "idle"
    /\ d_exc = "none"
    /\ epoch = 0
    /\ best_val = Zero
    /\ select_acc_easy = Zero
    /\ hist = <<>>
    /\ ret = Zero

InitDriver ==
    /\ args \in [split : Splits, tuning_type : TuningTypes, epochs : 0..MaxEpochs]
    /\ d_pc = "setup"
    /\ d_exc = "none"
    /\ epoch = 0
    /\ best_val = Zero
    /\ select_acc_easy = Zero
    /\ hist = <<>>
    /\ ret = Zero

\* lines 136-147: the split is "random" or "species", or ValueError
SplitKnown(a) == a.split \in {"random", "species"}

\* lines 154-160: test_easy_loader is bound only in the else branch
TestEasyLoaderBound(a) == a.split # "random"

\* lines 187-188: prompt is bound only when tuning_type is gpfe
PromptBound(a) == a.tuning_type = "gpfe"

\* lines 120-230: everything before the epoch loop
Setup ==
    /\ d_pc = "setup"
    /\ IF ~SplitKnown(args)
       THEN d_pc' = "raised" /\ d_exc' = "ValueError" /\ epoch' = epoch
       ELSE IF ~PromptBound(args)
       THEN d_pc' = "raised" /\ d_exc' = "UnboundLocalError" /\ epoch' = epoch
       ELSE d_pc' = "loop" /\ d_exc' = d_exc /\ epoch' = 1
    /\ best_val' = Zero
    /\ select_acc_easy' = Zero
    /\ UNCHANGED <<args, hist, ret>>

\* the comparison with >= in the place of >
BetterOrEqual(val_acc, best) == FGt(val_acc, best) \/ FEq(val_acc, best)

\* line 253: the comparison that selects the epoch
Better(val_acc, best) == FGt(val_acc, best)

\* lines 232-256: one epoch
Epoch ==
    /\ d_pc = "loop"
    /\ epoch <= args.epochs
    /\ \E val_acc \in AUCVals, test_acc_easy \in AUCVals :
        IF ~TestEasyLoaderBound(args)
        THEN /\ d_pc' = "raised"
             /\ d_exc' = "UnboundLocalError"
             /\ UNCHANGED <<epoch, best_val, select_acc_easy, hist>>
        ELSE /\ hist' = Append(hist, <<val_acc, test_acc_easy>>)
             /\ IF Better(val_acc, best_val)
                THEN best_val' = val_acc /\ select_acc_easy' = test_acc_easy
                ELSE UNCHANGED <<best_val, select_acc_easy>>
             /\ epoch' = epoch + 1
             /\ UNCHANGED <<d_pc, d_exc>>
    /\ UNCHANGED <<args, ret>>

\* line 260
Return ==
    /\ d_pc = "loop"
    /\ epoch > args.epochs
    /\ d_pc' = "returned"
    /\ ret' = select_acc_easy
    /\ UNCHANGED <<args, d_exc, epoch, best_val, select_acc_easy, hist>>

(***************************************************************************)
(* GNN.compute_bottleneck_dim (bio lines 300-307, chem lines 377-383).     *)
(***************************************************************************)
\* int(n / d) for d > 0: Python's int() truncates toward zero
IntTrunc(n, d) == IF n >= 0 THEN n \div d ELSE 0 - ((0 - n) \div d)

\* int(n / d + 1/2) for d > 0: rounding to nearest instead of truncating
IntRound(n, d) == IntTrunc(2 * n + d, 2 * d)

\* the schedule with the width rounded to nearest
compute_bottleneck_dim_rounded(mn, mx, l, total) ==
    IntRound(mn * (total - 1) + (mx - mn) * l, total - 1)

\* int(min + (max - min) * (layer / (total_layers - 1))): for every argument
\* within the bounds of this model the float result is the exact quotient
\* truncated
compute_bottleneck_dim(mn, mx, l, total) ==
    IntTrunc(mn * (total - 1) + (mx - mn) * l, total - 1)

BottleneckDims == (0 - NegBottleneck)..MaxBottleneck

IdleSchedule ==
    /\ min_bottleneck_dim = 0
    /\ max_bottleneck_dim = 0
    /\ total_layers = 0
    /\ layer = 0
    /\ widths = <<>>

InitSchedule ==
    /\ min_bottleneck_dim \in BottleneckDims
    /\ max_bottleneck_dim \in BottleneckDims
    /\ total_layers \in 2..MaxTotalLayers
    /\ layer = 0
    /\ widths = <<>>

\* one call compute_bottleneck_dim(layer, total_layers), layer = 0, 1, ...
ComputeWidth ==
    /\ layer < total_layers
    /\ widths' = Append(widths, compute_bottleneck_dim(min_bottleneck_dim,
                            max_bottleneck_dim, layer, total_layers))
    /\ layer' = layer + 1
    /\ UNCHANGED <<min_bottleneck_dim, max_bottleneck_dim, total_layers>>

(***************************************************************************)
(* Strings the code slices, as sequences of characters.                    *)
(***************************************************************************)
S_sum == <<"s", "u", "m">>
S_mean == <<"m", "e", "a", "n">>
S_max == <<"m", "a", "x">>
S_attention == <<"a", "t", "t", "e", "n", "t", "i", "o", "n">>
S_set2set == <<"s", "e", "t", "2", "s", "e", "t">>
S_bogus == <<"b", "o", "g", "u", "s">>

\* s[:-1]
ButLast(s) == SubSeq(s, 1, Len(s) - 1)

Digits == <<"0", "1", "2", "3", "4", "5", "6", "7", "8", "9">>
IsDigit(ch) == \E k \in 1..Len(Digits) : Digits[k] = ch
\* int(ch) of a digit
DigitValue(ch) == (CHOOSE k \in 1..Len(Digits) : Digits[k] = ch) - 1

(***************************************************************************)
(* Construction: GNN.__init__ and AdapterGPFE_graphpred.__init__.          *)
(***************************************************************************)
None == [cls |-> "None"]
NoModel == [cls |-> "NoModel"]
NoCfg == [cls |-> "NoCfg"]

Raise(e) == [exc |-> e, obj |-> NoModel]
Made(o) == [exc |-> "none", obj |-> o]

\* torch.zeros(prompt_num, num_layer, 1) + 0.01, in units of 0.01
GatingInit == 1

\* the bio convolutions (GINConv lines 24-45, the others lines 76-91,
\* 130-153, 196-211) and the chem ones (GINConv lines 30-47; the others,
\* lines 92-103, 139-159, 199-210, take no input_layer)
Conv(domain, kind, input_layer) ==
    [kind |-> kind,
     input_layer |-> IF domain = "chem" /\ kind # "gin" THEN FALSE ELSE input_layer,
     aggr_x |-> None,
     modify |-> 0 - 1]

\* the same loop with input_layer True on every pass
BuildConvsAllInput(domain, gnn_type, num_layer) ==
    IF gnn_type \in {"gin", "gcn", "gat", "graphsage"}
    THEN [l \in 1..num_layer |-> Conv(domain, gnn_type, TRUE)]
    ELSE <<>>

\* the loop over range(num_layer) that appends one convolution per layer;
\* a gnn_type that matches no branch appends nothing
\* (bio lines 255-269, chem lines 330-343)
BuildConvs(domain, gnn_type, num_layer) ==
    IF gnn_type \in {"gin", "gcn", "gat", "graphsage"}
    THEN [l \in 1..num_layer |-> Conv(domain, gnn_type, l = 1)]
    ELSE <<>>

\* the Sequential with the zeros_ calls on its element [0] instead
ZeroInitFirst(in_dim, bottleneck_dim, w0) ==
    [kind |-> "bottleneck", in_dim |-> in_dim, width |-> bottleneck_dim,
     w1 |-> 0, b1 |-> 0, w2 |-> w0, b2 |-> w0]

\* the Sequential of bio lines 288-295 and chem lines 365-373, with the
\* zeros_ calls on its element [2] reading "Linear 2": w1, b1 keep the
\* default initialisation w0, w2 and b2 are zeroed
ZeroInitSecond(in_dim, bottleneck_dim, w0) ==
    [kind |-> "bottleneck", in_dim |-> in_dim, width |-> bottleneck_dim,
     w1 |-> w0, b1 |-> w0, w2 |-> 0, b2 |-> 0]

\* one adapter module (bio lines 287-297, chem lines 364-375)
Adapter(in_dim, bottleneck_dim, w0) ==
    IF bottleneck_dim > 0
    THEN ZeroInitSecond(in_dim, bottleneck_dim, w0)
    ELSE [kind |-> "batchnorm", in_dim |-> in_dim, width |-> 0,
          w1 |-> 0, b1 |-> 0, w2 |-> 0, b2 |-> 0]

\* the bottleneck width of the adapters of layer l (0-based).  chem line
\* 361 computes it inside the loop over the layers; bio line 283 computes it
\* once, before that loop, from the variable layer the loop over the
\* convolutions left at num_layer - 1
LayerBottleneck(domain, c, l) ==
    IF domain = "chem"
    THEN compute_bottleneck_dim(c.min_bottleneck_dim, c.max_bottleneck_dim, l, c.num_layer)
    ELSE compute_bottleneck_dim(c.min_bottleneck_dim, c.max_bottleneck_dim,
                                c.num_layer - 1, c.num_layer)

\* the input width of adapter i of a layer (bio line 289, chem line 366)
AdapterInDim(domain, c, i) ==
    IF domain = "bio" /\ i > 0 THEN 2 * c.emb_dim ELSE c.emb_dim

\* self.prompts: two lists of num_layer adapters
BuildPrompts(domain, c, w0) ==
    [i \in 0..1 |->
        [l \in 1..c.num_layer |->
            Adapter(AdapterInDim(domain, c, i), LayerBottleneck(domain, c, l - 1), w0)]]

\* GNN.__init__ (bio lines 241-297, chem lines 310-375)
BuildGNN(domain, c, w0) ==
    IF c.num_layer < 2 THEN Raise("ValueError")
    ELSE Made([cls |-> "GNN",
               domain |-> domain,
               num_layer |-> c.num_layer,
               emb_dim |-> c.emb_dim,
               JK |-> c.JK,
               gnns |-> BuildConvs(domain, c.gnn_type, c.num_layer),
               gating |-> [i \in 0..1 |-> [l \in 1..c.num_layer |-> GatingInit]],
               batch_norms |-> IF domain = "chem" THEN c.num_layer ELSE 0,
               prompts |-> BuildPrompts(domain, c, w0),
               training |-> TRUE])

\* the width of the node representation for a JK mode
\* (chem lines 262, 268, 280: (num_layer + 1) * emb_dim for concat)
JKWidth(c) == IF c.JK = "concat" THEN (c.num_layer + 1) * c.emb_dim ELSE c.emb_dim

FnPool(name) == [exc |-> "none", pool |-> [kind |-> name, in_channels |-> 0, steps |-> 0]]
PoolRaise(e) == [exc |-> e, pool |-> [kind |-> "none", in_channels |-> 0, steps |-> 0]]

\* an else branch that falls back to mean pooling
UnknownPoolingAsMean(c) == FnPool("mean")

\* the else branch of the pooling chain (bio line 364, chem line 272)
UnknownPooling(c) == PoolRaise("ValueError")

\* bio lines 355-364
BioPool(c) ==
    IF c.graph_pooling = S_sum THEN FnPool("sum")
    ELSE IF c.graph_pooling = S_mean THEN FnPool("mean")
    ELSE IF c.graph_pooling = S_max THEN FnPool("max")
    ELSE IF c.graph_pooling = S_attention
    THEN [exc |-> "none", pool |-> [kind |-> "attention", in_channels |-> c.emb_dim, steps |-> 0]]
    ELSE UnknownPooling(c)

\* Set2Set over emb_dim whatever the JK mode
ChemSet2SetNoJK(c) ==
    IF ~IsDigit(c.graph_pooling[Len(c.graph_pooling)])
    THEN PoolRaise("ValueError")
    ELSE [exc |-> "none",
          pool |-> [kind |-> "set2set", in_channels |-> c.emb_dim,
                    steps |-> DigitValue(c.graph_pooling[Len(c.graph_pooling)])]]

\* chem lines 265-270: Set2Set over the JK width
ChemSet2Set(c) ==
    IF ~IsDigit(c.graph_pooling[Len(c.graph_pooling)])
    THEN PoolRaise("ValueError")    \* int() of a non-digit
    ELSE [exc |-> "none",
          pool |-> [kind |-> "set2set", in_channels |-> JKWidth(c),
                    steps |-> DigitValue(c.graph_pooling[Len(c.graph_pooling)])]]

\* chem lines 254-272
ChemPool(c) ==
    IF c.graph_pooling = S_sum THEN FnPool("sum")
    ELSE IF c.graph_pooling = S_mean THEN FnPool("mean")
    ELSE IF c.graph_pooling = S_max THEN FnPool("max")
    ELSE IF c.graph_pooling = S_attention
    THEN [exc |-> "none", pool |-> [kind |-> "attention", in_channels |-> JKWidth(c), steps |-> 0]]
    ELSE IF ButLast(c.graph_pooling) = S_set2set THEN ChemSet2Set(c)
    ELSE UnknownPooling(c)

\* chem lines 274-277
Mult(c) == IF ButLast(c.graph_pooling) = S_set2set THEN 2 ELSE 1

\* the input width of graph_pred_linear (bio line 366, chem lines 279-282)
LinearIn(domain, c) ==
    IF domain = "bio" THEN c.emb_dim
    ELSE IF c.JK = "concat" THEN Mult(c) * (c.num_layer + 1) * c.emb_dim
    ELSE Mult(c) * c.emb_dim

\* AdapterGPFE_graphpred.__init__ (bio lines 340-366, chem lines 238-282)
BuildHead(domain, c, w0) ==
    IF c.num_layer < 2 THEN Raise("ValueError")
    ELSE LET g == BuildGNN(domain, c, w0)
             p == IF domain = "bio" THEN BioPool(c) ELSE ChemPool(c)
         IN  IF g.exc # "none" THEN Raise(g.exc)
             ELSE IF p.exc # "none" THEN Raise(p.exc)
             ELSE Made([cls |-> "graphpred",
                        domain |-> domain,
                        num_layer |-> c.num_layer,
                        emb_dim |-> c.emb_dim,
                        JK |-> c.JK,
                        gnn |-> g.obj,
                        pool |-> p.pool,
                        mult |-> IF domain = "chem" THEN Mult(c) ELSE 1,
                        graph_pred_linear |-> [in_features |-> LinearIn(domain, c),
                                               out_features |-> NumTasks]])

Build(c, w0) ==
    IF c.cls = "GNN" THEN BuildGNN(c.domain, c, w0) ELSE BuildHead(c.domain, c, w0)

Domains == {"bio", "chem"}
GnnTypes == {"gin", "gcn", "gat", "graphsage", "bogus"}
JKs == {"last", "sum", "max", "concat"}
Poolings ==
    {S_sum, S_mean, S_max, S_attention, S_set2set, S_bogus, <<>>,
     S_set2set \o <<"1">>, S_set2set \o <<"3">>, S_set2set \o <<"x">>}
EmbDims == {1, EmbDimSmall, EmbDimLarge}
\* the value the default initialisation gives a weight: some nonzero number
InitWeights == 1..MaxInitWeight

Cfgs ==
    [cls : {"GNN", "graphpred"}, domain : Domains, num_layer : 0..MaxNumLayer,
     emb_dim : EmbDims, JK : JKs, graph_pooling : Poolings, gnn_type : GnnTypes,
     max_bottleneck_dim : {0, 3, MaxBottleneck}, min_bottleneck_dim : {0, 3}]

IdleBuild ==
    /\ cfg = NoCfg
    /\ model = NoModel
    /\ c_exc = "none"

\* one constructor call
Construct ==
    /\ cfg = NoCfg
    /\ \E c \in Cfgs, w0 \in InitWeights :
        \* an encoder takes no graph_pooling
        /\ c.cls = "GNN" => c.graph_pooling = S_mean
        /\ cfg' = c
        /\ model' = Build(c, w0).obj
        /\ c_exc' = Build(c, w0).exc

(***************************************************************************)
(* Tensor shapes, and the jumping-knowledge block of GNN.forward           *)
(* (bio lines 327-331, chem lines 417-427).                                *)
(***************************************************************************)
\* the shape of torch.cat of k tensors [1, n, emb] along dim 0
Stacked(k, n, emb) == <<k, n, emb>>
\* the shape of torch.sum(t, dim=0), and of the values of torch.max(t, dim=0)
ReduceDim0(shape) == Tail(shape)
\* the shape of t[0]
Index0(shape) == Tail(shape)
\* the last dimension: the feature width
Width(shape) == shape[Len(shape)]

NoShape == <<>>

\* the shape of node_representation for n nodes; NoShape when no branch
\* binds it
JKShape(domain, JK, n, num_layer, emb_dim) ==
    IF JK = "last" THEN <<n, emb_dim>>
    ELSE IF JK = "sum"
    THEN IF domain = "bio"
         THEN Index0(ReduceDim0(Stacked(num_layer, n, emb_dim)))      \* h_list[1:]
         ELSE Index0(ReduceDim0(Stacked(num_layer + 1, n, emb_dim)))
    ELSE IF domain = "chem" /\ JK = "concat" THEN <<n, (num_layer + 1) * emb_dim>>
    ELSE IF domain = "chem" /\ JK = "max"
    THEN ReduceDim0(Stacked(num_layer + 1, n, emb_dim))    \* [0] takes the values
    ELSE NoShape

\* the width of what the pooling module returns for node representations
\* of width w: Set2Set(in_channels, steps) returns 2 * in_channels columns,
\* the others keep the width; GlobalAttention's gate and Set2Set take
\* in_channels columns, and 0 stands for the mismatch
PoolOutWidth(pool, w) ==
    IF pool.kind = "set2set"
    THEN IF pool.in_channels = w THEN 2 * pool.in_channels ELSE 0
    ELSE IF pool.kind = "attention"
    THEN IF pool.in_channels = w THEN w ELSE 0
    ELSE w

(***************************************************************************)
(* The convolution layers' forward.  A node-feature tensor is its shape    *)
(* [rows, cols]; an edge index is a sequence of (source, target) pairs of  *)
(* 0-based node ids; an edge-attribute matrix is a sequence of rows.       *)
(***************************************************************************)
\* the width of a biology edge-attribute row (bio lines 27, 51)
BioEdgeDim == 9
\* the column a biology self-loop row sets to 1 (bio line 52)
BioSelfLoopIndex == 7
\* the bond type of a chemistry self-loop row (chem line 54)
ChemSelfLoopBond == 4

\* torch.zeros(9) with [7] = 1 (bio lines 51-52, 109-110); torch.zeros(2)
\* with [0] = 4 (chem lines 53-54, 121-122)
SelfLoopRow(domain) ==
    IF domain = "bio"
    THEN [k \in 1..BioEdgeDim |-> IF k = BioSelfLoopIndex + 1 THEN 1 ELSE 0]
    ELSE <<ChemSelfLoopBond, 0>>

\* an edge index tensor, as distinct from None
LongTensor(edges) == [cls |-> "LongTensor", edges |-> edges]

\* torch_geometric.utils.add_self_loops(edge_index, num_nodes=n): the pair
\* (edge_index with the loops (k, k), k < n, appended; edge_weight None)
add_self_loops(edge_index, n) ==
    <<LongTensor(edge_index \o [k \in 1..n |-> <<k - 1, k - 1>>]), None>>

\* the num_nodes argument of the call of add_self_loops: bio GINConv line 48
\* passes x.size(1), every other layer x.size(0)
NumNodesArg(domain, conv, x) ==
    IF domain = "bio" /\ conv.kind = "gin" THEN x.cols ELSE x.rows

\* the layer's forward takes a prompt argument: only the GIN layers do
\* (bio line 47, chem line 49; bio lines 104, 159, 213, chem lines 116, 165,
\* 212 take x, edge_index, edge_attr)
TakesPrompt(domain, conv) == conv.kind = "gin"

\* the rows of x that message passing sees: the input layer of biology
\* embeds x.view(-1) (bio lines 60, 117, 172, 226)
EmbeddedRows(domain, conv, x) ==
    IF domain = "bio" /\ conv.input_layer THEN x.rows * x.cols ELSE x.rows

\* what the layer hands to propagate as the edge index, from the pair p that
\* add_self_loops returned: element [0] of it, element [1] (chem GINConv
\* line 67), or the pair itself after self.aggr (bio lines 123, 175, 230)
PropagateIndex(domain, conv, p) ==
    IF domain = "chem" /\ conv.kind = "gin" THEN p[2]
    ELSE IF domain = "bio" /\ conv.kind # "gin" THEN None
    ELSE p[1]

\* propagate gathers x by the edge index: every node id must be a row of x
\* and every edge needs its row of edge attributes
Propagates(index, ea, rows) ==
    /\ index # None
    /\ Len(index.edges) = Len(ea)
    /\ \A k \in 1..Len(index.edges) :
        index.edges[k][1] < rows /\ index.edges[k][2] < rows

\* a forward call: nargs counts x, edge_index, edge_attr and, when 4, the
\* prompt (None or a prompt generator); training is the module's mode
ConvForward(domain, conv, x, edge_index, edge_attr, nargs, prompt, training) ==
    LET p == add_self_loops(edge_index, NumNodesArg(domain, conv, x))
        ea == edge_attr \o [k \in 1..x.rows |-> SelfLoopRow(domain)]
        rows == EmbeddedRows(domain, conv, x)
        calls == IF conv.kind = "gin" /\ conv.input_layer /\ nargs = 4 /\ prompt # None
                 THEN 1 ELSE 0
        index == PropagateIndex(domain, conv, p)
        exc == IF conv.kind = "gcn" THEN "AttributeError"      \* norm of the pair
               ELSE IF domain = "bio" /\ conv.kind # "gin" THEN "TypeError"
               ELSE IF index = None THEN "ValueError"
               ELSE IF ~Propagates(index, ea, rows) THEN "RuntimeError"
               \* BatchNorm1d inside the bio GIN mlp, one row, training
               ELSE IF domain = "bio" /\ conv.kind = "gin" /\ training /\ rows = 1
               THEN "ValueError"
               ELSE "none"
    IN  IF nargs = 4 /\ ~TakesPrompt(domain, conv)
        THEN [entered |-> FALSE, exc |-> "TypeError", edge_index |-> None,
              edge_attr |-> <<>>, prop_index |-> None, prompt_calls |-> 0,
              rows |-> 0, aggregated |-> FALSE]
        ELSE [entered |-> TRUE, exc |-> exc, edge_index |-> p[1],
              edge_attr |-> ea, prop_index |-> index, prompt_calls |-> calls,
              rows |-> rows,
              \* propagate reached update, which stores aggr_out
              aggregated |-> conv.kind = "gin" /\ index # None
                             /\ Propagates(index, ea, rows)]

ConvKinds == {"gin", "gcn", "gat", "graphsage"}
NodeIds(n) == 0..(n - 1)
EdgeLists(n) == UNION {[1..e -> NodeIds(n) \X NodeIds(n)] : e \in 0..MaxEdges}
\* edge-attribute rows of a dataset: a biology row with one bit set (bit 7
\* too), a chemistry row (bond type, bond direction)
AttrRows(domain) ==
    IF domain = "bio"
    THEN {[k \in 1..BioEdgeDim |-> IF k = j THEN 1 ELSE 0] : j \in {1, BioSelfLoopIndex + 1}}
    ELSE {<<0, 0>>, <<ChemSelfLoopBond, 1>>}
Prompts == {None, [cls |-> "SimplePrompt"]}

NoConvIn == [cls |-> "NoConvIn"]
NoConvRes == [cls |-> "NoConvRes"]

IdleConv ==
    /\ conv_in = NoConvIn
    /\ conv_res = NoConvRes

\* one call of a layer, constructed as the encoders construct it
ConvCall ==
    /\ conv_in = NoConvIn
    /\ \E domain \in Domains, kind \in ConvKinds, input_layer \in BOOLEAN,
          n \in 1..MaxNodes, cols \in 1..EmbDimSmall, nargs \in {3, 4},
          prompt \in Prompts, training \in BOOLEAN :
        \E edge_index \in EdgeLists(n) :
            \E edge_attr \in [1..Len(edge_index) -> AttrRows(domain)] :
                LET conv == Conv(domain, kind, input_layer)
                    x == [rows |-> n, cols |-> cols]
                IN  /\ nargs = 3 => prompt = None
                    /\ conv_in' = [cls |-> "ConvIn", domain |-> domain, conv |-> conv,
                                   x |-> x, edge_index |-> edge_index,
                                   edge_attr |-> edge_attr, nargs |-> nargs,
                                   prompt |-> prompt, training |-> training]
                    /\ conv_res' = ConvForward(domain, conv, x, edge_index, edge_attr,
                                               nargs, prompt, training)

(***************************************************************************)
(* Tensors of values.  A 2-D tensor is a sequence of rows, a row a         *)
(* sequence of floats; the modules below are applied as torch applies      *)
(* them.  The weights of a Linear are one number per layer (every entry    *)
(* of the weight matrix the same), which is exact for the zeroed layers.   *)
(***************************************************************************)
Lit(v) == Rat(v, 1)
RECURSIVE GCD(_, _)
GCD(a, b) == IF b = 0 THEN a ELSE GCD(b, a % b)
Abs(n) == IF n < 0 THEN 0 - n ELSE n
\* the same float in lowest terms
Norm(a) ==
    IF a.nan THEN NaN
    ELSE LET d == GCD(Abs(a.num), a.den) IN Rat(a.num \div d, a.den \div d)
FMul(a, b) == IF a.nan \/ b.nan THEN NaN ELSE Norm(Rat(a.num * b.num, a.den * b.den))
\* a + b over the least common denominator, in lowest terms
FPlus(a, b) ==
    IF a.nan \/ b.nan THEN NaN
    ELSE LET d == GCD(a.den, b.den)
         IN  Norm(Rat(a.num * (b.den \div d) + b.num * (a.den \div d),
                      (a.den \div d) * b.den))
\* the sum of the entries of a row
RECURSIVE RowSum(_)
RowSum(r) == IF r = <<>> THEN Zero ELSE FPlus(RowSum(SubSeq(r, 1, Len(r) - 1)), r[Len(r)])
FRelu(a) == IF a.nan THEN NaN ELSE IF a.num > 0 THEN a ELSE Zero
FMax(a, b) == IF a.nan \/ b.nan THEN NaN ELSE IF FPlus(b, FMul(Lit(0 - 1), a)).num > 0 THEN b ELSE a

Rows(t) == Len(t)
Cols(t) == IF t = <<>> THEN 0 ELSE Len(t[1])
ShapeOf(t) == [rows |-> Rows(t), cols |-> Cols(t)]

TAdd(a, b) == [n \in 1..Len(a) |-> [j \in 1..Len(a[n]) |-> FPlus(a[n][j], b[n][j])]]
TMax(a, b) == [n \in 1..Len(a) |-> [j \in 1..Len(a[n]) |-> FMax(a[n][j], b[n][j])]]
TScale(a, g) == [n \in 1..Len(a) |-> [j \in 1..Len(a[n]) |-> FMul(a[n][j], g)]]
TRelu(a) == [n \in 1..Len(a) |-> [j \in 1..Len(a[n]) |-> FRelu(a[n][j])]]
TCat1(a, b) == [n \in 1..Len(a) |-> a[n] \o b[n]]
TEq(a, b) ==
    /\ Len(a) = Len(b)
    /\ \A n \in 1..Len(a) :
        /\ Len(a[n]) = Len(b[n])
        /\ \A j \in 1..Len(a[n]) : Norm(a[n][j]) = Norm(b[n][j])
TZero(a) == \A n \in 1..Len(a) : \A j \in 1..Len(a[n]) : Norm(a[n][j]) = Zero

\* the element of a one-element set
The(S) == CHOOSE v \in S : TRUE

Ok(t) == [exc |-> "none", val |-> t]
Err(e) == [exc |-> e, val |-> <<>>]

\* torch.nn.Linear(in_features, out_features) with weight w and bias b
Linear(t, in_features, out_features, w, b) ==
    IF Cols(t) # in_features THEN Err("RuntimeError")
    ELSE Ok([n \in 1..Rows(t) |->
                [j \in 1..out_features |-> FPlus(FMul(Lit(w), RowSum(t[n])), Lit(b))]])

\* torch.nn.BatchNorm1d(num_features) as constructed (weight 1, bias 0,
\* running mean 0, running variance 1).  In eval mode it divides by
\* sqrt(1 + eps), taken as 1; in training mode it needs more than one row
\* and centres each column, given here up to the column's positive scale
BatchNorm1d(t, num_features, training) ==
    IF Cols(t) # num_features THEN Err("RuntimeError")
    ELSE IF ~training THEN Ok(t)
    ELSE IF Rows(t) = 1 THEN Err("ValueError")
    ELSE Ok([n \in 1..Rows(t) |->
                [j \in 1..Cols(t) |->
                    FPlus(FMul(Lit(Rows(t)), t[n][j]),
                          FMul(Lit(0 - 1), RowSum([m \in 1..Rows(t) |-> t[m][j]])))]])

\* one adapter applied: Linear, ReLU, Linear, BatchNorm1d(emb_dim), or the
\* BatchNorm1d(emb_dim) alone (bio lines 286-297, chem lines 364-375)
AdapterApply(a, t, emb_dim, training) ==
    IF a.kind = "batchnorm" THEN BatchNorm1d(t, emb_dim, training)
    ELSE LET l1 == Linear(t, a.in_dim, a.width, a.w1, a.b1)
             l2 == Linear(TRelu(l1.val), a.width, emb_dim, a.w2, a.b2)
         IN  IF l1.exc # "none" THEN l1
             ELSE IF l2.exc # "none" THEN l2
             ELSE BatchNorm1d(l2.val, emb_dim, training)

(***************************************************************************)
(* GNN.forward (bio lines 308-333, chem lines 385-429) and the heads'      *)
(* forward (bio lines 370-379, chem lines 287-305).                        *)
(***************************************************************************)
\* the denominator of the unit GatingInit is given in (bio line 274, chem
\* line 346: + 0.01)
GatingScale == 100

\* the width of the aggregated messages: bio GINConv.message concatenates
\* x_j and the edge embedding (bio line 67), chem multiplies them (line 71)
AggrWidth(domain, emb_dim) == IF domain = "bio" THEN 2 * emb_dim ELSE emb_dim

Encoder(m) == IF m.cls = "GNN" THEN m ELSE m.gnn
WithEncoder(m, g) == IF m.cls = "GNN" THEN g ELSE [m EXCEPT !.gnn = g]

\* the number of arguments the encoder is called with, 0 - 1 when the call
\* does not reach it, and the exception of the dispatch.  chem head lines
\* 288-301; bio head line 370 takes (data, prompt); a direct call of an
\* encoder passes its arguments on
HeadDispatch(m, nargs) ==
    IF m.cls = "GNN" THEN [exc |-> "none", enc_args |-> nargs]
    ELSE IF m.domain = "bio"
    THEN IF nargs = 2 THEN [exc |-> "none", enc_args |-> 4]
         ELSE [exc |-> "TypeError", enc_args |-> 0 - 1]
    ELSE IF nargs = 5 THEN [exc |-> "none", enc_args |-> 4]
    ELSE IF nargs \in {4, 1} THEN [exc |-> "none", enc_args |-> 3]
    ELSE [exc |-> "ValueError: unmatched number of arguments.", enc_args |-> 0 - 1]

\* the encoder's own dispatch: chem lines 386-394 accept 4, 3 or 1
\* arguments; bio line 308 takes exactly (x, edge_index, edge_attr, prompt)
EncDispatch(g, enc_args) ==
    IF g.domain = "bio"
    THEN IF enc_args = 4 THEN "none" ELSE "TypeError"
    ELSE IF enc_args \in {4, 3, 1} THEN "none"
    ELSE "ValueError: unmatched number of arguments."

\* the name prompt is bound in the encoder's forward: chem binds it in the
\* branch of 4 arguments only (lines 386-392)
PromptBoundIn(g, enc_args) == g.domain = "bio" \/ enc_args = 4

\* the call passes a prompt: the last argument of a 5-argument call of the
\* chem head, of a 2-argument call of the bio head, of a 4-argument call of
\* an encoder
PassesPrompt(m, nargs) ==
    IF m.cls = "GNN" THEN nargs = 4
    ELSE IF m.domain = "bio" THEN nargs = 2
    ELSE nargs = 5

\* what update stores in self.aggr_x: the aggregated messages of a call
AggrOf(call) == [cls |-> "Tensor", call |-> call]

\* the state of a forward call after some layers
Fail(acc, e) == [acc EXCEPT !.exc = e]

\* the end of a pass of the loop over the layers: the gated adapter outputs
\* are added to the convolution output, then ReLU on all layers but the last
\* (bio lines 316-325, chem lines 404-415)
LayerOut(g, l, stored, r, conv_out, delta0, delta1) ==
    LET pre == TAdd(TAdd(conv_out.val,
                         TScale(delta0.val, Rat(g.gating[0][l + 1], GatingScale))),
                    TScale(delta1.val, Rat(g.gating[1][l + 1], GatingScale)))
    IN  IF r.exc # "none" THEN Fail(stored, r.exc)
        ELSE IF conv_out.exc # "none" THEN Fail(stored, conv_out.exc)
        ELSE IF delta0.exc # "none" THEN Fail(stored, delta0.exc)
        ELSE IF delta1.exc # "none" THEN Fail(stored, delta1.exc)
        ELSE [stored EXCEPT
                \* drop_ratio is 0, the constructor's default: F.dropout
                \* returns its input
                !.h_list = Append(@, IF l < g.num_layer - 1 THEN TRelu(pre) ELSE pre),
                !.layers = Append(@, [conv_out |-> conv_out.val,
                                      delta0 |-> delta0.val,
                                      delta1 |-> delta1.val,
                                      pre |-> pre])]

\* a pass after its convolution returned r: the two adapters are applied
\* (bio lines 316-319, chem lines 404-409).  d holds the values the
\* convolutions compute with their own weights: h the output, aggr the
\* aggregated messages; inp.x_emb is the embedding of the input nodes
LayerConv(g, inp, d, l, acc, r) ==
    LET h == acc.h_list[l + 1]
        conv == acc.gnns[l + 1]
        called == [acc EXCEPT !.prompt_calls = @ + r.prompt_calls]
        stored == [called EXCEPT !.gnns[l + 1].aggr_x = AggrOf(inp.call)]
        x_embeded == IF g.domain = "chem" THEN h
                     ELSE IF conv.input_layer THEN inp.x_emb ELSE h
    IN  IF ~r.aggregated THEN Fail(called, r.exc)
        ELSE IF r.exc # "none" THEN Fail(stored, r.exc)
        ELSE The({LayerOut(g, l, stored, r, conv_out, delta0, delta1) :
                    conv_out \in {IF g.domain = "chem"
                                  THEN BatchNorm1d(d[l + 1].h, g.emb_dim, g.training)
                                  ELSE Ok(d[l + 1].h)},
                    delta0 \in {AdapterApply(g.prompts[0][l + 1], x_embeded,
                                             g.emb_dim, g.training)},
                    delta1 \in {AdapterApply(g.prompts[1][l + 1], d[l + 1].aggr,
                                             g.emb_dim, g.training)}})

\* one pass of the loop over the layers, layer l counted from 0
\* (bio lines 310-325, chem lines 399-415)
Layer(g, inp, draws, l, acc) ==
    IF Len(g.gnns) <= l THEN Fail(acc, "IndexError")
    ELSE IF ~PromptBoundIn(g, inp.enc_args) THEN Fail(acc, "UnboundLocalError")
    ELSE The({LayerConv(g, inp, draws, l, acc, r) :
                r \in {ConvForward(g.domain, acc.gnns[l + 1], ShapeOf(acc.h_list[l + 1]),
                                   inp.edge_index, inp.edge_attr, 4, inp.prompt,
                                   g.training)}})

RECURSIVE RunLayers(_, _, _, _, _)
RunLayers(g, inp, draws, l, acc) ==
    IF l = g.num_layer \/ acc.exc # "none" THEN acc
    ELSE The({RunLayers(g, inp, draws, l + 1, a) : a \in {Layer(g, inp, draws, l, acc)}})

\* the elementwise sum, and maximum, of a list of tensors of one shape
RECURSIVE TSumAll(_)
TSumAll(ts) == IF Len(ts) = 1 THEN ts[1] ELSE TAdd(TSumAll(SubSeq(ts, 1, Len(ts) - 1)), ts[Len(ts)])
RECURSIVE TMaxAll(_)
TMaxAll(ts) == IF Len(ts) = 1 THEN ts[1] ELSE TMax(TMaxAll(SubSeq(ts, 1, Len(ts) - 1)), ts[Len(ts)])
RECURSIVE TCatAll(_)
TCatAll(ts) == IF Len(ts) = 1 THEN ts[1] ELSE TCat1(TCatAll(SubSeq(ts, 1, Len(ts) - 1)), ts[Len(ts)])

SameShapes(ts) == \A k \in 1..Len(ts) : ShapeOf(ts[k]) = ShapeOf(ts[1])

NoRep == [shape |-> NoShape, val |-> <<>>]

\* the jumping-knowledge block (bio lines 327-331, chem lines 417-427) on
\* the list of hidden states: the node representation, a tensor for a 2-D
\* shape and a single row for a 1-D one
JKCombine(domain, JK, h_list) ==
    LET n == Rows(h_list[Len(h_list)])
        emb == Cols(h_list[Len(h_list)])
        shape == JKShape(domain, JK, n, Len(h_list) - 1, emb)
    IN  IF JK = "last"
        THEN [exc |-> "none", rep |-> [shape |-> shape, val |-> h_list[Len(h_list)]]]
        ELSE IF JK = "sum"
        THEN LET ts == IF domain = "bio" THEN Tail(h_list) ELSE h_list
             IN  IF ~SameShapes(ts) THEN [exc |-> "RuntimeError", rep |-> NoRep]
                 ELSE [exc |-> "none", rep |-> [shape |-> shape, val |-> TSumAll(ts)[1]]]
        ELSE IF domain = "chem" /\ JK = "concat"
        THEN [exc |-> "none", rep |-> [shape |-> shape, val |-> TCatAll(h_list)]]
        ELSE IF domain = "chem" /\ JK = "max"
        THEN [exc |-> "none", rep |-> [shape |-> shape, val |-> TMaxAll(h_list)]]
        \* no branch binds node_representation
        ELSE [exc |-> "UnboundLocalError", rep |-> NoRep]

NoFwdRes ==
    [cls |-> "NoFwdRes", exc |-> "none", h_list |-> <<>>, layers |-> <<>>,
     rep |-> NoRep, prompt_calls |-> 0, returned |-> 0]

\* the end of GNN.forward: the jumping-knowledge block and the return
EncReturn(g, ran, jk) ==
    LET res == [cls |-> "FwdRes", exc |-> ran.exc, h_list |-> ran.h_list,
                layers |-> ran.layers, rep |-> NoRep,
                prompt_calls |-> ran.prompt_calls, returned |-> 0]
    IN  IF ran.exc # "none" THEN [gnns |-> ran.gnns, res |-> res]
        ELSE IF jk.exc # "none"
        THEN [gnns |-> ran.gnns, res |-> [res EXCEPT !.exc = jk.exc]]
        ELSE [gnns |-> ran.gnns, res |-> [res EXCEPT !.rep = jk.rep, !.returned = 1]]

EncLayers(g, ran) ==
    The({EncReturn(g, ran, jk) :
            jk \in {IF ran.exc # "none" THEN [exc |-> "none", rep |-> NoRep]
                    ELSE JKCombine(g.domain, g.JK, ran.h_list)}})

\* GNN.forward called with enc_args arguments
EncForward(g, inp, draws) ==
    LET start == [exc |-> "none",
                  h_list |-> <<IF g.domain = "bio" THEN inp.x ELSE inp.x_emb>>,
                  layers |-> <<>>, gnns |-> g.gnns, prompt_calls |-> 0]
    IN  IF EncDispatch(g, inp.enc_args) # "none"
        THEN [gnns |-> g.gnns,
              res |-> [NoFwdRes EXCEPT !.cls = "FwdRes", !.exc = EncDispatch(g, inp.enc_args)]]
        ELSE The({EncLayers(g, ran) : ran \in {RunLayers(g, inp, draws, 0, start)}})

\* the head's forward after the encoder returned rep: the pooling and the
\* classifier (chem lines 303-305); the bio head's statement of line 377
\* does not parse, and stands for a failure at that statement
HeadTail(m, rep) ==
    IF Len(rep.shape) # 2 THEN "IndexError"
    ELSE IF PoolOutWidth(m.pool, Width(rep.shape)) = 0 THEN "RuntimeError"
    ELSE IF m.domain = "bio" THEN "SyntaxError"
    ELSE IF PoolOutWidth(m.pool, Width(rep.shape)) # m.graph_pred_linear.in_features
    THEN "RuntimeError"
    ELSE "none"

\* the head's forward once the encoder returned e
HeadReturn(m, e) ==
    IF m.cls = "GNN" \/ e.res.exc # "none" THEN e
    ELSE IF HeadTail(m, e.res.rep) # "none"
    THEN [e EXCEPT !.res.exc = HeadTail(m, e.res.rep), !.res.returned = 0]
    ELSE [e EXCEPT !.res.returned = 2]

\* model(*args): the forward of a head or of an encoder
ModelForward(m, inp, draws) ==
    IF HeadDispatch(m, inp.nargs).exc # "none"
    THEN [gnns |-> Encoder(m).gnns,
          res |-> [NoFwdRes EXCEPT !.cls = "FwdRes", !.exc = HeadDispatch(m, inp.nargs).exc]]
    ELSE The({HeadReturn(m, e) : e \in {EncForward(Encoder(m), inp, draws)}})

\* the number of leading layers of a call whose convolution reaches update;
\* shape is the shape of the layer's input
RECURSIVE NumAggregated(_, _, _, _)
AggregatedFrom(g, inp, l, r) ==
    IF ~r.aggregated THEN 0
    ELSE IF r.exc # "none" THEN 1
    ELSE 1 + The({NumAggregated(g, inp, l + 1, shape) :
                    shape \in {[rows |-> r.rows, cols |-> g.emb_dim]}})

NumAggregated(g, inp, l, shape) ==
    IF l = g.num_layer \/ Len(g.gnns) <= l \/ ~PromptBoundIn(g, inp.enc_args) THEN 0
    ELSE The({AggregatedFrom(g, inp, l, r) :
                r \in {ConvForward(g.domain, g.gnns[l + 1], shape, inp.edge_index,
                                   inp.edge_attr, 4, inp.prompt, g.training)}})

\* the values a hidden state can take, and the tensors of a shape
Vals == {0 - MaxHidden, MaxHidden}
Tensors(r, c) == [1..r -> [1..c -> {Lit(v) : v \in Vals}]]
\* the tensors of a shape with one value in every entry
ConstTensors(r, c) == {[n \in 1..r |-> [j \in 1..c |-> Lit(v)]] : v \in Vals}

\* data.x: one 0/1 column in biology, (atom type, chirality) in chemistry
RawX(domain, n) ==
    IF domain = "bio" THEN [1..n -> [1..1 -> {Lit(0), Lit(1)}]]
    ELSE {[k \in 1..n |-> <<Lit(0), Lit(0)>>]}
FwdEdgeLists(n) == {e \in EdgeLists(n) : Len(e) <= MaxFwdEdges}
DataRow(domain) ==
    IF domain = "bio" THEN [k \in 1..BioEdgeDim |-> IF k = 1 THEN 1 ELSE 0]
    ELSE <<0, 0>>

FwdCfgs ==
    [cls : {"GNN", "graphpred"}, domain : Domains, num_layer : 2..MaxFwdLayers,
     emb_dim : 1..EmbDimSmall, JK : JKs, graph_pooling : {S_mean},
     gnn_type : {"gin", "gcn", "bogus"},
     max_bottleneck_dim : {0, 3}, min_bottleneck_dim : {0}]

NoFwdIn == [cls |-> "NoFwdIn"]

IdleFwd ==
    /\ opt_steps = 0
    /\ fwd_calls = 0
    /\ fwd_in = NoFwdIn
    /\ fwd_res = NoFwdRes

\* a model as its constructor leaves it
InitForward ==
    /\ \E c \in FwdCfgs, w0 \in InitWeights :
        /\ Build(c, w0).exc = "none"
        /\ cfg = c
        /\ model = Build(c, w0).obj
    /\ c_exc = "none"
    /\ IdleFwd

\* model(...) with nargs positional arguments on a graph of n nodes: the
\* first call, or the call of the batch after an optimizer step
\* (bio/finetune.py lines 30-36)
Forward ==
    /\ fwd_calls <= opt_steps
    /\ fwd_calls' = fwd_calls + 1
    /\ \E nargs \in 0..MaxArgs, n \in 1..MaxNodes, prompt \in Prompts :
        \E x \in RawX(model.domain, n), edge_index \in FwdEdgeLists(n),
           g \in {Encoder(model)}, hd \in {HeadDispatch(model, nargs)} :
            \E base \in {[cls |-> "FwdIn", call |-> fwd_calls + 1, nargs |-> nargs,
                           enc_args |-> hd.enc_args, x |-> x, edge_index |-> edge_index,
                           edge_attr |-> [k \in 1..Len(edge_index) |-> DataRow(model.domain)],
                           prompt |-> prompt, x_emb |-> <<>>]},
               reaches \in {hd.exc = "none" /\ EncDispatch(g, hd.enc_args) = "none"} :
                \E k \in {IF reaches THEN NumAggregated(g, base, 0, ShapeOf(x)) ELSE 0} :
                    /\ (prompt # None) => PassesPrompt(model, nargs)
                    /\ \E x_emb \in (IF (IF model.domain = "chem" THEN reaches ELSE k >= 1)
                                      THEN Tensors(n, g.emb_dim) ELSE {<<>>}),
                          draws \in [1..k -> [h : Tensors(n, g.emb_dim),
                                              aggr : ConstTensors(n, AggrWidth(model.domain, g.emb_dim))]] :
                        \E r \in {ModelForward(model, [base EXCEPT !.x_emb = x_emb], draws)} :
                            /\ fwd_in' = [base EXCEPT !.x_emb = x_emb]
                            /\ fwd_res' = r.res
                            /\ model' = WithEncoder(model, [g EXCEPT !.gnns = r.gnns])
                            /\ UNCHANGED <<cfg, c_exc, opt_steps>>

\* model.train() (bio/finetune.py line 21)
ModelTrain ==
    /\ ~Encoder(model).training
    /\ model' = WithEncoder(model, [Encoder(model) EXCEPT !.training = TRUE])
    /\ UNCHANGED <<cfg, c_exc, fwdVars>>

\* model.eval() (bio/finetune.py line 40)
ModelEval ==
    /\ Encoder(model).training
    /\ model' = WithEncoder(model, [Encoder(model) EXCEPT !.training = FALSE])
    /\ UNCHANGED <<cfg, c_exc, fwdVars>>

StepWeights == (0 - MaxStepWeight)..MaxStepWeight

\* loss.backward() and optimizer.step() on the output of a completed
\* forward (bio/finetune.py lines 32-36): the optimizer's groups hold the
\* adapters and the gating (lines 210-211); the second projections and the
\* gating move to some values, and the output of that forward is consumed
Step ==
    /\ opt_steps < MaxSteps
    /\ opt_steps < fwd_calls
    /\ fwd_res.cls = "FwdRes"
    /\ fwd_res.exc = "none"
    /\ \E w \in StepWeights, gt \in 1..MaxGating :
        LET g == Encoder(model)
            moved(a) == IF a.kind = "bottleneck" THEN [a EXCEPT !.w2 = w, !.b2 = w] ELSE a
        IN  model' = WithEncoder(model,
                [g EXCEPT !.prompts = [i \in 0..1 |-> [l \in 1..g.num_layer |-> moved(g.prompts[i][l])]],
                          !.gating = [i \in 0..1 |-> [l \in 1..g.num_layer |-> gt]]])
    /\ opt_steps' = opt_steps + 1
    /\ fwd_in' = NoFwdIn
    /\ fwd_res' = NoFwdRes
    /\ UNCHANGED <<cfg, c_exc, fwd_calls>>

(***************************************************************************)
(* Parameters by name: from_pretrained (bio lines 367-368, chem lines      *)
(* 284-285), the optimizer's parameter groups (bio/finetune.py lines       *)
(* 198-220) and optimizer.step (train, lines 33-35).  A parameter's name   *)
(* is a sequence of characters; a parameter's value is where it came from: *)
(* its constructor, the checkpoint, or an optimizer step.                  *)
(***************************************************************************)
MaxLr == 2
MaxTuneSteps == 2

N_gnn == <<"g", "n", "n">>
N_gnns == <<"g", "n", "n", "s">>
N_mlp == <<"m", "l", "p">>
N_linear == <<"l", "i", "n", "e", "a", "r">>
N_weight == <<"w", "e", "i", "g", "h", "t">>
N_bias == <<"b", "i", "a", "s">>
N_prompts == <<"p", "r", "o", "m", "p", "t", "s">>
N_gating == <<"g", "a", "t", "i", "n", "g">>
N_gating_parameter == N_gating \o <<"_", "p", "a", "r", "a", "m", "e", "t", "e", "r">>
N_batch_norms == <<"b", "a", "t", "c", "h", "_", "n", "o", "r", "m", "s">>
N_edge_encoder == <<"e", "d", "g", "e", "_", "e", "n", "c", "o", "d", "e", "r">>
N_input_node_embeddings ==
    <<"i", "n", "p", "u", "t", "_", "n", "o", "d", "e", "_",
      "e", "m", "b", "e", "d", "d", "i", "n", "g", "s">>
N_embedding == <<"e", "m", "b", "e", "d", "d", "i", "n", "g">>
N_x_embedding1 == <<"x", "_">> \o N_embedding \o <<"1">>
N_x_embedding2 == <<"x", "_">> \o N_embedding \o <<"2">>
N_edge_embedding1 == <<"e", "d", "g", "e", "_">> \o N_embedding \o <<"1">>
N_edge_embedding2 == <<"e", "d", "g", "e", "_">> \o N_embedding \o <<"2">>
N_graph_pred_linear ==
    <<"g", "r", "a", "p", "h", "_", "p", "r", "e", "d", "_">> \o N_linear
\* the parameters of the prompt module passed to train and eval, which is
\* no part of the head
N_prompt == <<"p", "r", "o", "m", "p", "t">>

\* a.b, and str(i) of one digit
Dot(a, b) == a \o <<".">> \o b
Str(i) == <<Digits[i + 1]>>

\* name.startswith(prefix), name.endswith(suffix), sub in name
StartsWith(name, prefix) ==
    Len(name) >= Len(prefix) /\ SubSeq(name, 1, Len(prefix)) = prefix
EndsWith(name, suffix) ==
    Len(name) >= Len(suffix)
    /\ SubSeq(name, Len(name) - Len(suffix) + 1, Len(name)) = suffix
Contains(name, sub) ==
    \E k \in 1..Len(name) :
        k + Len(sub) - 1 <= Len(name) /\ SubSeq(name, k, k + Len(sub) - 1) = sub

\* the names prefix.n of a module's parameters
Under(prefix, names) == [k \in 1..Len(names) |-> Dot(prefix, names[k])]

\* a Linear, a BatchNorm1d, an Embedding
LinearParams == <<N_weight, N_bias>>
BatchNormParams == <<N_weight, N_bias>>
EmbeddingParams == <<N_weight>>

\* named_parameters() of one convolution, in registration order
\* (bio GINConv lines 24-41, GCNConv lines 76-89; chem GINConv lines 30-37,
\* GCNConv lines 92-100)
ConvParams(domain, kind, input_layer) ==
    IF domain = "bio"
    THEN (IF kind = "gin"
          THEN Under(N_edge_encoder, LinearParams)
               \o Under(Dot(N_mlp, Str(0)), LinearParams)
               \o Under(Dot(N_mlp, Str(1)), BatchNormParams)
               \o Under(Dot(N_mlp, Str(3)), LinearParams)
          ELSE Under(N_linear, LinearParams)
               \o Under(N_edge_encoder, LinearParams))
         \o (IF input_layer
             THEN Under(N_input_node_embeddings, EmbeddingParams) ELSE <<>>)
    ELSE (IF kind = "gin"
          THEN Under(Dot(N_mlp, Str(0)), LinearParams)
               \o Under(Dot(N_mlp, Str(2)), LinearParams)
          ELSE Under(N_linear, LinearParams))
         \o Under(N_edge_embedding1, EmbeddingParams)
         \o Under(N_edge_embedding2, EmbeddingParams)

\* named_parameters() of one adapter: the Sequential of a Linear, a ReLU, a
\* Linear and a BatchNorm1d, or the BatchNorm1d alone
AdapterParams(bottleneck) ==
    IF bottleneck
    THEN Under(Str(0), LinearParams) \o Under(Str(2), LinearParams)
         \o Under(Str(3), BatchNormParams)
    ELSE BatchNormParams

\* the concatenation of f[1], ..., f[n]
RECURSIVE Flatten(_)
Flatten(f) ==
    IF Len(f) = 0 THEN <<>>
    ELSE Flatten(SubSeq(f, 1, Len(f) - 1)) \o f[Len(f)]

\* named_parameters() of the encoder: its own parameter first (gating is a
\* second name of gating_parameter and is listed once), then its
\* sub-modules in the order __init__ assigns them
EncoderParams(c) ==
    <<N_gating_parameter>>
    \o (IF c.domain = "chem"
        THEN Under(N_x_embedding1, EmbeddingParams)
             \o Under(N_x_embedding2, EmbeddingParams)
        ELSE <<>>)
    \o Flatten([l \in 1..c.num_layer |->
            Under(Dot(N_gnns, Str(l - 1)), ConvParams(c.domain, c.gnn_type, l = 1))])
    \o (IF c.domain = "chem"
        THEN Flatten([l \in 1..c.num_layer |->
                Under(Dot(N_batch_norms, Str(l - 1)), BatchNormParams)])
        ELSE <<>>)
    \o Flatten([i \in 1..2 |-> Flatten([l \in 1..c.num_layer |->
            Under(Dot(Dot(N_prompts, Str(i - 1)), Str(l - 1)),
                  AdapterParams(c.bottleneck))])])

\* named_parameters() of the head
HeadParams(c) ==
    Under(N_gnn, EncoderParams(c)) \o Under(N_graph_pred_linear, LinearParams)

\* prompt.parameters()
PromptParams == <<Dot(N_prompt, N_weight)>>

Range(f) == {f[k] : k \in 1..Len(f)}

\* the state after the constructors
Constructed(c) == [n \in Range(HeadParams(c)) \cup Range(PromptParams) |-> "constructed"]

\* a key of the encoder's state_dict names the tensor it is stored in
Tensor(key) == IF key = N_gating THEN N_gating_parameter ELSE key

\* Module.load_state_dict(state_dict, strict=False) on the encoder: every
\* key of the encoder that the checkpoint has is copied if the shapes agree
\* (gating after gating_parameter), a key of either side that the other
\* lacks is ignored, and a key whose shape differs raises after the others
\* are copied
LoadKeys(c) == EncoderParams(c) \o <<N_gating>>
Matched(c, ckpt) == {k \in Range(LoadKeys(c)) : k \in DOMAIN ckpt}
Copied(c, ckpt) == {k \in Matched(c, ckpt) : ckpt[k].fits}
load_state_dict(c, ps, ckpt) ==
    [exc |-> IF Copied(c, ckpt) # Matched(c, ckpt) THEN "RuntimeError" ELSE "none",
     params |-> [n \in DOMAIN ps |->
        IF \E k \in Copied(c, ckpt) : Dot(N_gnn, Tensor(k)) = n
        THEN "loaded" ELSE ps[n]]]

\* torch.load(model_file, map_location): the chem head maps every storage
\* to the device cuda:2
torch_load(c) ==
    IF c.domain = "chem" /\ c.cuda_devices < 3 THEN "RuntimeError" ELSE "none"

NoCheckpoint == [cls |-> "NoCheckpoint"]

\* the keys a checkpoint may hold: one of a convolution, one of an adapter,
\* the gating tensor under both its names, and one that is no key of the
\* encoder
CheckpointKeys(c) ==
    {Dot(Dot(N_gnns, Str(0)), ConvParams(c.domain, c.gnn_type, TRUE)[1]),
     Dot(Dot(Dot(N_prompts, Str(0)), Str(0)), AdapterParams(c.bottleneck)[1]),
     N_gating_parameter,
     N_gating,
     Dot(N_graph_pred_linear, N_weight)}
Checkpoints(c) ==
    UNION {[keys -> [fits : BOOLEAN]] : keys \in SUBSET CheckpointKeys(c)}

TuneCfgs ==
    [domain : Domains, gnn_type : {"gin", "gcn"}, num_layer : {2},
     bottleneck : BOOLEAN, lr : 1..MaxLr, cuda_devices : {0, 3}]

NoTuneCfg == [cls |-> "NoTuneCfg"]

IdleTune ==
    /\ t_cfg = NoTuneCfg
    /\ params = <<>>
    /\ checkpoint = NoCheckpoint
    /\ param_groups = <<>>
    /\ t_pc = "idle"
    /\ t_exc = "none"
    /\ t_steps = 0

\* bio/finetune.py lines 168-170: the head is constructed; args.model_file
\* is empty (no checkpoint) or names a checkpoint
InitTune ==
    /\ t_cfg \in TuneCfgs
    /\ params = Constructed(t_cfg)
    /\ checkpoint \in {NoCheckpoint} \cup Checkpoints(t_cfg)
    /\ param_groups = <<>>
    /\ t_pc = "built"
    /\ t_exc = "none"
    /\ t_steps = 0

\* lines 175-176 with an empty args.model_file
NoPretrained ==
    /\ t_pc = "built"
    /\ checkpoint = NoCheckpoint
    /\ t_pc' = "loaded"
    /\ UNCHANGED <<t_cfg, params, checkpoint, param_groups, t_exc, t_steps>>

\* lines 175-176: model.from_pretrained(args.model_file)
FromPretrained ==
    /\ t_pc = "built"
    /\ checkpoint # NoCheckpoint
    /\ IF torch_load(t_cfg) # "none"
       THEN /\ t_exc' = torch_load(t_cfg)
            /\ t_pc' = "raised"
            /\ params' = params
       ELSE \E r \in {load_state_dict(t_cfg, params, checkpoint)} :
            /\ t_exc' = r.exc
            /\ t_pc' = IF r.exc = "none" THEN "loaded" ELSE "raised"
            /\ params' = r.params
    /\ UNCHANGED <<t_cfg, checkpoint, param_groups, t_steps>>

NoLr == 0

Group(names, lr) == [params |-> names, lr |-> lr]

\* the same loop with the second test on the name 'mlp' alone
NamedGroupsAnyMlp(name) ==
    (IF StartsWith(name, N_batch_norms)
     THEN <<Group(<<Dot(N_gnn, name)>>, NoLr)>> ELSE <<>>)
    \o (IF Contains(name, N_mlp)
        THEN <<Group(<<Dot(N_gnn, name)>>, NoLr)>> ELSE <<>>)

\* lines 209-212: the groups one named parameter of the encoder adds
NamedGroups(name) ==
    (IF StartsWith(name, N_batch_norms)
     THEN <<Group(<<Dot(N_gnn, name)>>, NoLr)>> ELSE <<>>)
    \o (IF Contains(name, N_mlp) /\ EndsWith(name, N_bias)
        THEN <<Group(<<Dot(N_gnn, name)>>, NoLr)>> ELSE <<>>)

\* module.parameters() of a sub-module of the head
ParamsUnder(c, prefix) ==
    SelectSeq(HeadParams(c), LAMBDA n : StartsWith(n, prefix \o <<".">>))

\* lines 202-213: the list model_param_group
model_param_group(c) ==
    <<Group(PromptParams, NoLr),
      Group(ParamsUnder(c, Dot(N_gnn, N_prompts)), c.lr),
      Group(<<Dot(N_gnn, N_gating_parameter)>>, c.lr)>>
    \o Flatten([k \in 1..Len(EncoderParams(c)) |-> NamedGroups(EncoderParams(c)[k])])
    \o <<Group(ParamsUnder(c, N_graph_pred_linear), c.lr)>>

\* optim.Adam(groups, lr=lr, ...): a group without a learning rate gets
\* the default; a parameter in two groups is a ValueError
Adam(groups, lr) ==
    IF \E i, j \in 1..Len(groups) :
          i < j /\ Range(groups[i].params) \cap Range(groups[j].params) # {}
    THEN [exc |-> "ValueError", param_groups |-> <<>>]
    ELSE [exc |-> "none",
          param_groups |-> [k \in 1..Len(groups) |->
              [groups[k] EXCEPT !.lr = IF @ = NoLr THEN lr ELSE @]]]

\* lines 198-220
MakeOptimizer ==
    /\ t_pc = "loaded"
    /\ \E o \in {Adam(model_param_group(t_cfg), t_cfg.lr)} :
        /\ t_exc' = o.exc
        /\ t_pc' = IF o.exc = "none" THEN "optim" ELSE "raised"
        /\ param_groups' = o.param_groups
    /\ UNCHANGED <<t_cfg, params, checkpoint, t_steps>>

\* the parameters of the optimizer's groups
Optimized(groups) == UNION {Range(groups[k].params) : k \in 1..Len(groups)}

\* the sets of tensors loss.backward() may leave a gradient on: all that
\* require one (no parameter is frozen), or all but the prompt's when the
\* forward pass got no prompt
GradSets(ps) == {DOMAIN ps, DOMAIN ps \ Range(PromptParams)}

\* train, lines 33-35: zero_grad, backward, step.  Adam changes the
\* parameters of its groups that have a gradient
OptimizerStep ==
    /\ t_pc = "optim"
    /\ t_steps < MaxTuneSteps
    /\ \E grads \in GradSets(params) :
        params' = [n \in DOMAIN params |->
            IF n \in Optimized(param_groups) /\ n \in grads
            THEN "stepped" ELSE params[n]]
    /\ t_steps' = t_steps + 1
    /\ UNCHANGED <<t_cfg, checkpoint, param_groups, t_pc, t_exc>>

(***************************************************************************)
(* GCNConv.norm (bio lines 93-102, chem lines 105-114).  The number        *)
(* d ** -0.5 is kept exactly as the radicand d: [zero, rad] stands for 0   *)
(* when zero holds and for 1 / sqrt(rad) otherwise.                        *)
(***************************************************************************)
MaxNormNodes == 3

\* scatter_add(edge_weight, row, dim=0, dim_size=num_nodes) of the all-one
\* edge_weight: for every node the number of edges whose row entry it is.
\* row, col = edge_index: row is element [1] of a pair, col element [2]
ScatterAddRow(edges, num_nodes) ==
    [v \in NodeIds(num_nodes) |->
        Cardinality({k \in 1..Len(edges) : edges[k][1] = v})]

\* deg.pow(-0.5), with the entries equal to inf (deg = 0) set to 0
DegInvSqrt(d) == [zero |-> d = 0, rad |-> IF d = 0 THEN 1 ELSE d]

\* the product of two such numbers (edge_weight is 1)
SqrtMul(a, b) ==
    IF a.zero \/ b.zero THEN [zero |-> TRUE, rad |-> 1]
    ELSE [zero |-> FALSE, rad |-> a.rad * b.rad]

\* deg_inv_sqrt[row] * edge_weight * deg_inv_sqrt[col]
norm(edges, num_nodes) ==
    [k \in 1..Len(edges) |->
        SqrtMul(DegInvSqrt(ScatterAddRow(edges, num_nodes)[edges[k][1]]),
                DegInvSqrt(ScatterAddRow(edges, num_nodes)[edges[k][2]]))]

NoNormIn == [cls |-> "NoNormIn"]
NoNormRes == [cls |-> "NoNormRes"]

\* the edge indexes norm is called on: a graph's edges, with the self-loops
\* add_self_loops appends or (the boundary case) without them
NormInputs ==
    {[edges |-> IF a THEN add_self_loops(e, n)[1].edges ELSE e,
      num_nodes |-> n, augmented |-> a] :
        <<n, e, a>> \in UNION {{n} \X EdgeLists(n) \X BOOLEAN : n \in 1..MaxNormNodes}}

IdleNorm ==
    /\ norm_in = NoNormIn
    /\ norm_res = NoNormRes

InitNorm ==
    /\ norm_in \in NormInputs
    /\ norm_res = NoNormRes

\* one call of norm
NormCall ==
    /\ norm_in # NoNormIn
    /\ norm_res = NoNormRes
    /\ norm_res' = [weights |-> norm(norm_in.edges, norm_in.num_nodes)]
    /\ UNCHANGED norm_in

(***************************************************************************)
(* One chem GINConv (chem lines 30-87): its attributes over set_prompt,    *)
(* forward and update calls.                                               *)
(***************************************************************************)
MaxHookCalls == 4

\* __init__, lines 41-47
ChemGINConv(input_layer) ==
    [kind |-> "gin", input_layer |-> input_layer, aggr_x |-> None,
     modify |-> 0 - 1, x |-> None, gating |-> 0, gating_m |-> 0, prompt |-> None]

\* set_prompt as it would read if it switched the hook on as well
set_prompt_enabling(g, prompt, gating_m) ==
    [g EXCEPT !.prompt = prompt, !.gating_m = gating_m, !.modify = 1]

\* set_prompt, lines 85-87
set_prompt(g, prompt, gating_m) ==
    [g EXCEPT !.prompt = prompt, !.gating_m = gating_m]

\* update, lines 73-79: stores aggr_out; modify_aggr_out is called when
\* modify is 1 or 0
update(g, aggr_out) ==
    [obj |-> [g EXCEPT !.aggr_x = aggr_out],
     hooked |-> IF g.modify = 1 \/ g.modify = 0 THEN 1 ELSE 0]

Tok(kind, k) == [cls |-> "Tensor", kind |-> kind, call |-> k]

NoCalls == [set_prompt |-> 0, forward |-> 0, update |-> 0, modify_aggr_out |-> 0]
TotalCalls(c) == c.set_prompt + c.forward + c.update

IdleHook ==
    /\ gin = None
    /\ hook_calls = NoCalls

InitHook ==
    /\ gin \in {ChemGINConv(il) : il \in BOOLEAN}
    /\ hook_calls = NoCalls

SetPrompt ==
    /\ gin # None
    /\ TotalCalls(hook_calls) < MaxHookCalls
    /\ \E prompt \in Prompts, gating_m \in 0..MaxGating :
        gin' = set_prompt(gin, prompt, gating_m)
    /\ hook_calls' = [hook_calls EXCEPT !.set_prompt = @ + 1]

\* forward, lines 49-67, on a graph of one node: self.x is stored, then
\* propagate runs and, if it gets as far, calls update
GinForward ==
    /\ gin # None
    /\ TotalCalls(hook_calls) < MaxHookCalls
    /\ \E prompt \in Prompts, e \in FwdEdgeLists(1) :
       \E r \in {ConvForward("chem", gin, [rows |-> 1, cols |-> 2], e,
                             [k \in 1..Len(e) |-> <<0, 0>>], 4, prompt, FALSE)} :
       \E u \in {update([gin EXCEPT !.x = Tok("x", TotalCalls(hook_calls))],
                        Tok("aggr", TotalCalls(hook_calls)))} :
        IF r.aggregated
        THEN /\ gin' = u.obj
             /\ hook_calls' = [hook_calls EXCEPT !.forward = @ + 1,
                                                 !.modify_aggr_out = @ + u.hooked]
        ELSE /\ gin' = [gin EXCEPT !.x = Tok("x", TotalCalls(hook_calls))]
             /\ hook_calls' = [hook_calls EXCEPT !.forward = @ + 1]

\* update called with an aggregate, as propagate calls it
Update ==
    /\ gin # None
    /\ TotalCalls(hook_calls) < MaxHookCalls
    /\ \E u \in {update(gin, Tok("aggr", TotalCalls(hook_calls)))} :
        /\ gin' = u.obj
        /\ hook_calls' = [hook_calls EXCEPT !.update = @ + 1,
                                            !.modify_aggr_out = @ + u.hooked]

(***************************************************************************)
(* One GINConv of either domain over a sequence of forward calls: what     *)
(* update stores in self.aggr_x and what forward returns beside its        *)
(* output (bio lines 47-71, chem lines 49-79).                             *)
(***************************************************************************)
MaxAuxCalls == 3

NoAuxIn == [cls |-> "NoAuxIn"]
NoLayer == [cls |-> "NoLayer"]

\* the return statement with self.aggr_x read before propagate runs
AuxReadFirst(before, after) == before.aggr_x

\* the return statement (bio line 64, chem line 67): Python evaluates the
\* tuple from the left, so propagate, and update inside it, has run when
\* self.aggr_x is read
AuxReturned(before, after) == after.aggr_x

\* the layer after a call whose ConvForward result is r: update stored the
\* aggregate of this call if propagate reached it
AfterCall(conv, r, call) ==
    IF r.aggregated THEN [conv EXCEPT !.aggr_x = AggrOf(call)] ELSE conv

\* what call number call raised or returned
CallResult(conv, r, call) ==
    IF r.exc # "none" THEN [exc |-> r.exc, aux |-> None, stored |-> r.aggregated]
    ELSE [exc |-> "none", aux |-> AuxReturned(conv, AfterCall(conv, r, call)),
          stored |-> r.aggregated]

\* the shapes of the node features a call passes
AuxShapes == [rows : 1..MaxNodes, cols : 1..MaxNodes]

IdleAux ==
    /\ glayer = NoLayer
    /\ g_in = NoAuxIn
    /\ g_rets = <<>>

\* a layer as the encoders construct it
InitAux ==
    /\ \E d \in Domains, il \in BOOLEAN :
        glayer = [domain |-> d, conv |-> Conv(d, "gin", il)]
    /\ g_in = NoAuxIn
    /\ g_rets = <<>>

\* one call of the layer's forward
LayerForward ==
    /\ glayer # NoLayer
    /\ Len(g_rets) < MaxAuxCalls
    /\ \E x \in AuxShapes, prompt \in Prompts, training \in BOOLEAN :
       \E e \in FwdEdgeLists(x.rows) :
       \E r \in {ConvForward(glayer.domain, glayer.conv, x, e,
                             [k \in 1..Len(e) |-> DataRow(glayer.domain)],
                             4, prompt, training)} :
        /\ g_in' = [x |-> x, edge_index |-> e, prompt |-> prompt, training |-> training]
        /\ glayer' = [glayer EXCEPT !.conv = AfterCall(glayer.conv, r, Len(g_rets) + 1)]
        /\ g_rets' = Append(g_rets, CallResult(glayer.conv, r, Len(g_rets) + 1))

(***************************************************************************)
(* Specifications.                                                         *)
(***************************************************************************)
NextEval ==
    \/ EvalTask /\ UNCHANGED <<driverVars, scheduleVars, buildVars, convVars, fwdVars, tuneVars, normVars, hookVars, auxVars>>
    \/ EvalDone /\ UNCHANGED <<driverVars, scheduleVars, buildVars, convVars, fwdVars, tuneVars, normVars, hookVars, auxVars>>

InitEvalSpec == InitEval /\ IdleDriver /\ IdleSchedule /\ IdleBuild /\ IdleConv /\ IdleFwd /\ IdleTune /\ IdleNorm /\ IdleHook /\ IdleAux

SpecEval == InitEvalSpec /\ [][NextEval]_vars

NextDriver ==
    \/ Setup /\ UNCHANGED <<evalVars, scheduleVars, buildVars, convVars, fwdVars, tuneVars, normVars, hookVars, auxVars>>
    \/ Epoch /\ UNCHANGED <<evalVars, scheduleVars, buildVars, convVars, fwdVars, tuneVars, normVars, hookVars, auxVars>>
    \/ Return /\ UNCHANGED <<evalVars, scheduleVars, buildVars, convVars, fwdVars, tuneVars, normVars, hookVars, auxVars>>

InitDriverSpec == InitDriver /\ IdleEval /\ IdleSchedule /\ IdleBuild /\ IdleConv /\ IdleFwd /\ IdleTune /\ IdleNorm /\ IdleHook /\ IdleAux

SpecDriver == InitDriverSpec /\ [][NextDriver]_vars

NextSchedule == ComputeWidth /\ UNCHANGED <<driverVars, evalVars, buildVars, convVars, fwdVars, tuneVars, normVars, hookVars, auxVars>>

InitScheduleSpec == InitSchedule /\ IdleDriver /\ IdleEval /\ IdleBuild /\ IdleConv /\ IdleFwd /\ IdleTune /\ IdleNorm /\ IdleHook /\ IdleAux

SpecSchedule == InitScheduleSpec /\ [][NextSchedule]_vars

NextBuild == Construct /\ UNCHANGED <<driverVars, evalVars, scheduleVars, convVars, fwdVars, tuneVars, normVars, hookVars, auxVars>>

InitBuildSpec == IdleBuild /\ IdleDriver /\ IdleEval /\ IdleSchedule /\ IdleConv /\ IdleFwd /\ IdleTune /\ IdleNorm /\ IdleHook /\ IdleAux

SpecBuild == InitBuildSpec /\ [][NextBuild]_vars

NextConv == ConvCall /\ UNCHANGED <<driverVars, evalVars, scheduleVars, buildVars, fwdVars, tuneVars, normVars, hookVars, auxVars>>

InitConvSpec == IdleConv /\ IdleDriver /\ IdleEval /\ IdleSchedule /\ IdleBuild /\ IdleFwd /\ IdleTune /\ IdleNorm /\ IdleHook /\ IdleAux

SpecConv == InitConvSpec /\ [][NextConv]_vars

NextForward ==
    \/ Forward /\ UNCHANGED <<driverVars, evalVars, scheduleVars, convVars, tuneVars, normVars, hookVars, auxVars>>
    \/ ModelTrain /\ UNCHANGED <<driverVars, evalVars, scheduleVars, convVars, tuneVars, normVars, hookVars, auxVars>>
    \/ ModelEval /\ UNCHANGED <<driverVars, evalVars, scheduleVars, convVars, tuneVars, normVars, hookVars, auxVars>>
    \/ Step /\ UNCHANGED <<driverVars, evalVars, scheduleVars, convVars, tuneVars, normVars, hookVars, auxVars>>

InitForwardSpec == InitForward /\ IdleDriver /\ IdleEval /\ IdleSchedule /\ IdleConv /\ IdleTune /\ IdleNorm /\ IdleHook /\ IdleAux

SpecForward == InitForwardSpec /\ [][NextForward]_vars

NextTune ==
    \/ NoPretrained /\ UNCHANGED <<driverVars, evalVars, scheduleVars, buildVars, convVars, fwdVars, normVars, hookVars, auxVars>>
    \/ FromPretrained /\ UNCHANGED <<driverVars, evalVars, scheduleVars, buildVars, convVars, fwdVars, normVars, hookVars, auxVars>>
    \/ MakeOptimizer /\ UNCHANGED <<driverVars, evalVars, scheduleVars, buildVars, convVars, fwdVars, normVars, hookVars, auxVars>>
    \/ OptimizerStep /\ UNCHANGED <<driverVars, evalVars, scheduleVars, buildVars, convVars, fwdVars, normVars, hookVars, auxVars>>

InitTuneSpec == InitTune /\ IdleDriver /\ IdleEval /\ IdleSchedule /\ IdleBuild /\ IdleConv /\ IdleFwd /\ IdleNorm /\ IdleHook /\ IdleAux

SpecTune == InitTuneSpec /\ [][NextTune]_vars

NextNorm == NormCall /\ UNCHANGED <<driverVars, evalVars, scheduleVars, buildVars, convVars, fwdVars, tuneVars, hookVars, auxVars>>

InitNormSpec == InitNorm /\ IdleDriver /\ IdleEval /\ IdleSchedule /\ IdleBuild /\ IdleConv /\ IdleFwd /\ IdleTune /\ IdleHook /\ IdleAux

SpecNorm == InitNormSpec /\ [][NextNorm]_vars

NextHook ==
    \/ SetPrompt /\ UNCHANGED <<driverVars, evalVars, scheduleVars, buildVars, convVars, fwdVars, tuneVars, normVars, auxVars>>
    \/ GinForward /\ UNCHANGED <<driverVars, evalVars, scheduleVars, buildVars, convVars, fwdVars, tuneVars, normVars, auxVars>>
    \/ Update /\ UNCHANGED <<driverVars, evalVars, scheduleVars, buildVars, convVars, fwdVars, tuneVars, normVars, auxVars>>

InitHookSpec == InitHook /\ IdleDriver /\ IdleEval /\ IdleSchedule /\ IdleBuild /\ IdleConv /\ IdleFwd /\ IdleTune /\ IdleNorm /\ IdleAux

SpecHook == InitHookSpec /\ [][NextHook]_vars

NextAux == LayerForward /\ UNCHANGED <<driverVars, evalVars, scheduleVars, buildVars, convVars, fwdVars, tuneVars, normVars, hookVars>>

InitAuxSpec == InitAux /\ IdleDriver /\ IdleEval /\ IdleSchedule /\ IdleBuild /\ IdleConv /\ IdleFwd /\ IdleTune /\ IdleNorm /\ IdleHook

SpecAux == InitAuxSpec /\ [][NextAux]_vars

(***************************************************************************)
(* Claims about the driver and eval.                                       *)
(***************************************************************************)
\* two floats are the same value (NaN taken as one value)
SameFloat(a, b) == (a.nan /\ b.nan) \/ FEq(a, b)

\* epoch e has the largest validation AUC of the run
IsMaxVal(e) ==
    /\ ~hist[e][1].nan
    /\ \A e2 \in 1..Len(hist) : ~FGt(hist[e2][1], hist[e][1])

\* C1: when main returns after a run in which some epoch had a validation
\* AUC that is a number, the value returned is the test AUC of an epoch
\* whose validation AUC is the largest of the run.
C1_SelectsMaxValidation ==
    (d_pc = "returned" /\ \E e \in 1..Len(hist) : ~hist[e][1].nan)
        => \E e \in 1..Len(hist) : IsMaxVal(e) /\ SameFloat(ret, hist[e][2])

\* task i has both classes among the evaluated examples
TwoClass(i) == CountLabel(y_true, i, 1) > 0 /\ CountLabel(y_true, i, 0) > 0

\* the scores eval computed for the two-class tasks
DefinedScores == SelectSeq(roc_list, LAMBDA r : ~r.nan)

\* C2: when some task has both classes and another has only one, eval
\* raises nothing, the entry of every one-class task is NaN, and the value
\* returned is the mean of the scores of the two-class tasks only.
C2_MeanSkipsUndefined ==
    (e_pc = "returned" /\ (\E i \in Tasks : TwoClass(i)) /\ (\E i \in Tasks : ~TwoClass(i)))
        => /\ \A i \in Tasks : ~TwoClass(i) => roc_list[i].nan
           /\ SameFloat(e_ret, FDivInt(PySum(DefinedScores), Len(DefinedScores)))

(***************************************************************************)
(* Claims about the bottleneck-width schedule.                             *)
(***************************************************************************)
\* the widths computed so far are the first ones of the sequence ws
PrefixOf(ws) ==
    /\ Len(widths) <= Len(ws)
    /\ \A k \in 1..Len(widths) : widths[k] = ws[k]

IsExampleSchedule ==
    min_bottleneck_dim = 3 /\ max_bottleneck_dim = 16 /\ total_layers = 5

\* for min <= max the widths are non-decreasing, min at layer 0 and max at
\* the last layer
ScheduleShape ==
    min_bottleneck_dim <= max_bottleneck_dim =>
        /\ \A k \in 1..Len(widths) :
            /\ k = 1 => widths[k] = min_bottleneck_dim
            /\ k = total_layers => widths[k] = max_bottleneck_dim
        /\ \A k \in 1..(Len(widths) - 1) : widths[k] <= widths[k + 1]

\* C6 as stated: with min 3, max 16 and 5 layers the widths are
\* [3, 6, 9, 13, 16], and for min <= max they are non-decreasing from min
\* to max.
C6_ScheduleAsStated ==
    /\ IsExampleSchedule => PrefixOf(<<3, 6, 9, 13, 16>>)
    /\ ScheduleShape

\* C6 amended: with min 3, max 16 and 5 layers the widths are
\* [3, 6, 9, 12, 16] (12.75 truncates to 12), and for min <= max they are
\* non-decreasing, min at layer 0 and max at layer total_layers - 1.
C6_Schedule ==
    /\ IsExampleSchedule => PrefixOf(<<3, 6, 9, 12, 16>>)
    /\ ScheduleShape

\* C6 witness: the example schedule computed to its last layer
C6_Witness == IsExampleSchedule /\ Len(widths) = 5

(***************************************************************************)
(* Claims about construction.                                              *)
(***************************************************************************)
BasicPoolings == {S_sum, S_mean, S_max, S_attention}

\* the pooling modes a domain supports: set2set<k> in chemistry only
SupportedPooling(domain, gp) ==
    \/ gp \in BasicPoolings
    \/ domain = "chem" /\ \E k \in 1..Len(Digits) : gp = S_set2set \o <<Digits[k]>>

Rejected == c_exc = "ValueError" /\ model = NoModel

\* C3: a constructor call of either class and domain with num_layer < 2, and
\* a head constructor call with a graph_pooling the domain does not
\* support, raise ValueError and leave no object a forward pass could run
\* on.
C3_InvalidConfigRejected ==
    cfg # NoCfg =>
        /\ cfg.num_layer < 2 => Rejected
        /\ (cfg.cls = "graphpred" /\ ~SupportedPooling(cfg.domain, cfg.graph_pooling))
               => Rejected

\* C3 witness: a head with two or more layers and graph_pooling "bogus"
\* was rejected
C3_Witness ==
    /\ cfg # NoCfg
    /\ cfg.cls = "graphpred"
    /\ cfg.num_layer >= 2
    /\ cfg.graph_pooling = S_bogus
    /\ Rejected

KnownGnnTypes == {"gin", "gcn", "gat", "graphsage"}

\* the encoder of the object constructed
EncoderOf(mdl) == IF mdl.cls = "graphpred" THEN mdl.gnn ELSE mdl

\* C4: a constructor call with a gnn_type other than gin, gcn, gat,
\* graphsage raises ValueError, and every encoder constructed has num_layer
\* convolutions.
C4_UnknownGnnTypeRejected ==
    cfg # NoCfg =>
        /\ cfg.gnn_type \notin KnownGnnTypes => Rejected
        /\ model # NoModel => Len(EncoderOf(model).gnns) = cfg.num_layer

IsSet2Set(gp) == \E k \in 1..Len(Digits) : gp = S_set2set \o <<Digits[k]>>

ChemHeadBuilt == cfg # NoCfg /\ model # NoModel /\ cfg.cls = "graphpred" /\ cfg.domain = "chem"

C8_SelfLoopAugmentation ==
    (conv_in # NoConvIn /\ conv_res.entered) =>
        LET N == conv_in.x.rows
            E == Len(conv_in.edge_index)
        IN  /\ Len(conv_res.edge_index.edges) = E + N
            /\ Len(conv_res.edge_attr) = E + N
            /\ \A k \in (E + 1)..(E + N) :
                conv_res.edge_attr[k] = SelfLoopRow(conv_in.domain)

(***************************************************************************)
(* Claims about the forward pass.                                          *)
(***************************************************************************)
\* C5: a call of the chemistry head's forward with exactly 1, 4 or 5
\* positional arguments is accepted, runs the encoder and returns the two
\* values (pooled representation, classifier output); a call with any other
\* number of arguments fails with ValueError "unmatched number of
\* arguments".
C5_ArityDispatch ==
    (fwd_in.cls = "FwdIn" /\ cfg.cls = "graphpred" /\ cfg.domain = "chem"
        /\ cfg.gnn_type = "gin") =>
        IF fwd_in.nargs \in {1, 4, 5}
        THEN fwd_res.exc = "none" /\ fwd_res.returned = 2
        ELSE fwd_res.exc = "ValueError: unmatched number of arguments."

\* the adapters of an encoder that have a bottleneck
BottleneckAdapters(g) ==
    {a \in {g.prompts[i][l] : i \in 0..1, l \in 1..g.num_layer} : a.kind = "bottleneck"}

\* inputs to try an adapter on: every one-row tensor, and the two-row ones
\* with one value
ProbeTensors(in_dim) == Tensors(1, in_dim) \cup ConstTensors(2, in_dim)

\* C9: before any optimizer step, every bottleneck adapter of both adapter
\* sets has the weight and the bias of its second linear layer zero, its
\* output is the all-zero tensor for every input it accepts, and every
\* encoder layer a forward call computed with bottleneck adapters has its
\* pre-activation equal to the layer's convolution output.
C9_AdaptersStartAtZero ==
    opt_steps = 0 =>
        /\ \A a \in BottleneckAdapters(Encoder(model)) :
            /\ a.w2 = 0
            /\ a.b2 = 0
            /\ fwd_calls = 0 =>
                \A t \in ProbeTensors(a.in_dim), training \in BOOLEAN :
                    \A o \in {AdapterApply(a, t, Encoder(model).emb_dim, training)} :
                        o.exc = "none" => TZero(o.val)
        /\ \A k \in 1..Len(fwd_res.layers) :
            (\A i \in 0..1 : Encoder(model).prompts[i][k].kind = "bottleneck") =>
                /\ TZero(fwd_res.layers[k].delta0)
                /\ TZero(fwd_res.layers[k].delta1)
                /\ TEq(fwd_res.layers[k].pre, fwd_res.layers[k].conv_out)

\* C9 witness: a forward call before any optimizer step ran every layer of
\* an encoder whose adapters all have a bottleneck, on nonzero hidden states
C9_Witness ==
    /\ opt_steps = 0
    /\ fwd_res.cls = "FwdRes"
    /\ fwd_res.exc = "none"
    /\ Len(fwd_res.layers) = Encoder(model).num_layer
    /\ \A k \in 1..Len(fwd_res.layers) :
        /\ \A i \in 0..1 : Encoder(model).prompts[i][k].kind = "bottleneck"
        /\ ~TZero(fwd_res.layers[k].conv_out)

\* C10: after a forward call of an encoder, for JK = "sum" the node
\* representation has one row per node and is the elementwise sum of all
\* num_layer + 1 hidden states h_list[0..num_layer]; for JK = "last" it is
\* the final hidden state h_list[num_layer].
C10_JumpingKnowledge ==
    (fwd_res.cls = "FwdRes" /\ cfg.cls = "GNN" /\ fwd_res.exc = "none") =>
        /\ cfg.JK = "sum" =>
            /\ Len(fwd_res.h_list) = cfg.num_layer + 1
            /\ fwd_res.rep.shape = <<Len(fwd_in.x), cfg.emb_dim>>
            /\ SameShapes(fwd_res.h_list)
            /\ TEq(fwd_res.rep.val, TSumAll(fwd_res.h_list))
        /\ cfg.JK = "last" =>
            TEq(fwd_res.rep.val, fwd_res.h_list[cfg.num_layer + 1])


(***************************************************************************)
(* Claims about the checkpoint, the optimizer and the epochs.              *)
(***************************************************************************)
\* the parameters of the head outside the convolution part of the encoder:
\* the classifier, the adapters, the gating tensor
OutsideConvPart(n) ==
    \/ StartsWith(n, Dot(N_graph_pred_linear, <<>>))
    \/ StartsWith(n, Dot(Dot(N_gnn, N_prompts), <<>>))
    \/ n = Dot(N_gnn, N_gating_parameter)

\* C11: from_pretrained raises nothing and writes checkpoint values only
\* into parameters of the convolution part of the encoder: whatever keys the
\* checkpoint has, the classifier, the adapters and the gating tensor keep
\* their constructed values, and so does every encoder parameter whose name
\* is no key of the checkpoint.
C11_FromPretrainedFrame ==
    (checkpoint # NoCheckpoint /\ t_pc # "built") =>
        /\ t_exc = "none"
        /\ \A n \in DOMAIN params :
            (OutsideConvPart(n) \/ \A k \in DOMAIN checkpoint : Dot(N_gnn, k) # n)
                => params[n] # "loaded"

\* C12: with --tuning_type gpfe, main fails only for a --split other than
\* random and species, and then with ValueError; for the two accepted splits
\* every epoch runs and main returns after args.epochs epochs.
C12_AcceptedSplitsRun ==
    args.tuning_type = "gpfe" =>
        /\ d_pc = "raised" => (args.split \notin {"random", "species"}
                               /\ d_exc = "ValueError")
        /\ d_pc = "returned" => (args.split \in {"random", "species"}
                                 /\ Len(hist) = args.epochs)

\* the group holds the adapters, the gating tensor or the classifier
Elevated(g) ==
    \A k \in 1..Len(g.params) : OutsideConvPart(g.params[k])

\* C16: in the optimizer main builds, the group of the adapters, the group
\* of the gating tensor and the group of the classifier each have a learning
\* rate strictly higher than the base --lr.
C16_ElevatedLearningRates ==
    t_pc = "optim" =>
        \A k \in 1..Len(param_groups) :
            Elevated(param_groups[k]) => param_groups[k].lr > t_cfg.lr

\* the name of an encoder parameter, relative to the encoder
IsEncoderParam(n) == StartsWith(n, Dot(N_gnn, <<>>))
Relative(n) == SubSeq(n, Len(N_gnn) + 2, Len(n))

\* the encoder parameters the grouping leaves trainable
Trainable(n) ==
    \/ StartsWith(Relative(n), Dot(N_prompts, <<>>))
    \/ Relative(n) = N_gating_parameter
    \/ StartsWith(Relative(n), N_batch_norms)
    \/ (Contains(Relative(n), N_mlp) /\ EndsWith(Relative(n), N_bias))

\* C17: every encoder parameter other than the adapters, the gating tensor
\* and the parameters whose name starts with batch_norms or contains mlp and
\* ends with bias is in no group of the optimizer, and no optimizer step
\* changes its value.
C17_BackboneFrozen ==
    [][t_pc = "optim" =>
        \A n \in DOMAIN params :
            (IsEncoderParam(n) /\ ~Trainable(n)) =>
                /\ n \notin Optimized(param_groups)
                /\ params'[n] = params[n]]_vars

\* after two steps an adapter parameter and a name-matched bias have moved
\* while a convolution weight still holds the checkpoint's value
C17_Witness ==
    /\ t_pc = "optim"
    /\ t_steps = MaxTuneSteps
    /\ \E n \in DOMAIN params :
        IsEncoderParam(n) /\ ~Trainable(n) /\ params[n] = "loaded"
    /\ \E n \in DOMAIN params :
        /\ IsEncoderParam(n)
        /\ Contains(Relative(n), N_mlp) /\ EndsWith(Relative(n), N_bias)
        /\ params[n] = "stepped"
    /\ params[Dot(N_gnn, N_gating_parameter)] = "stepped"

\* the epochs of the run whose validation AUC is greater than 0
Positive == {e \in 1..Len(hist) : FGt(hist[e][1], Zero)}

\* the earliest epoch whose validation AUC equals best_val
Earliest ==
    CHOOSE e \in 1..Len(hist) :
        /\ FEq(hist[e][1], best_val)
        /\ \A e2 \in 1..(e - 1) : ~FEq(hist[e2][1], best_val)

BestValState ==
    /\ IF Positive = {}
       THEN SameFloat(best_val, Zero) /\ SameFloat(select_acc_easy, Zero)
       ELSE /\ \E e \in Positive : FEq(best_val, hist[e][1])
            /\ \A e \in 1..Len(hist) : ~FGt(hist[e][1], best_val)
            /\ SameFloat(select_acc_easy, hist[Earliest][2])
    /\ d_pc = "returned" => SameFloat(ret, select_acc_easy)

\* C20: after every epoch best_val is the largest validation AUC seen that
\* is greater than 0, or 0 when there is none (a NaN never counts), and it
\* never decreases; select_acc_easy is the test AUC of the earliest epoch
\* whose validation AUC equals best_val; when no epoch's validation AUC is
\* greater than 0, select_acc_easy is the initial 0, and main returns
\* select_acc_easy.
C20_BestValidationTracking ==
    [][~FGt(best_val, best_val') /\ BestValState']_vars

\* main returned after an epoch with a NaN validation AUC and two epochs
\* that tie at the best validation AUC with different test AUCs
C20_Witness ==
    /\ d_pc = "returned"
    /\ \E e \in 1..Len(hist) : hist[e][1].nan
    /\ \E e1, e2 \in 1..Len(hist) :
        /\ e1 < e2
        /\ FEq(hist[e1][1], best_val) /\ FEq(hist[e2][1], best_val)
        /\ FGt(best_val, Zero)
        /\ ~SameFloat(hist[e1][2], hist[e2][2])
        /\ SameFloat(ret, hist[e1][2])

(***************************************************************************)
(* Claims about the encoders' layers.                                      *)
(***************************************************************************)
\* a forward call that reached the encoder's loop over the layers
ReachedLayers ==
    /\ fwd_in.cls = "FwdIn"
    /\ HeadDispatch(model, fwd_in.nargs).exc = "none"
    /\ EncDispatch(Encoder(model), fwd_in.enc_args) = "none"
    /\ PromptBoundIn(Encoder(model), fwd_in.enc_args)

\* the calls of prompt.add the convolution of layer l (from 1) makes when
\* it is called on an input of n rows
AddCalls(l, n) ==
    ConvForward(model.domain, Encoder(model).gnns[l],
                [rows |-> n, cols |-> Encoder(model).emb_dim],
                fwd_in.edge_index, fwd_in.edge_attr, 4, fwd_in.prompt,
                Encoder(model).training).prompt_calls

\* C13: in a forward of an encoder of GIN layers that is passed a prompt
\* other than None, prompt.add is called exactly once, by layer 0 and before
\* that layer's message passing (so also when the message passing fails);
\* the layers after it are handed the prompt and never call it.
C13_PromptAddedOnceByInputLayer ==
    (ReachedLayers /\ cfg.gnn_type = "gin" /\ fwd_in.prompt # None) =>
        /\ fwd_res.prompt_calls = 1
        /\ \A l \in 2..Len(Encoder(model).gnns) : AddCalls(l, Len(fwd_in.x)) = 0

\* a forward with a prompt that ran all of its layers
C13_Witness ==
    /\ ReachedLayers /\ cfg.gnn_type = "gin" /\ fwd_in.prompt # None
    /\ cfg.num_layer = MaxFwdLayers
    /\ fwd_res.returned >= 1
    /\ Len(fwd_res.layers) = cfg.num_layer
    /\ fwd_res.prompt_calls = 1

\* the width compute_bottleneck_dim gives the adapters of layer l (from 0)
ScheduledWidth(c, l) ==
    compute_bottleneck_dim(c.min_bottleneck_dim, c.max_bottleneck_dim, l, c.num_layer)

\* adapter a is the one the constructor makes for the bottleneck width d
HasWidth(a, d) ==
    IF d > 0 THEN a.kind = "bottleneck" /\ a.width = d ELSE a.kind = "batchnorm"

\* C14: in both encoders the two adapters of layer l have the width
\* compute_bottleneck_dim(l, num_layer): layer 0 has the minimum, layer
\* num_layer - 1 the maximum.
C14_WidthPerLayer ==
    model # NoModel =>
        \A i \in 0..1, l \in 1..cfg.num_layer :
            HasWidth(EncoderOf(model).prompts[i][l], ScheduledWidth(cfg, l - 1))

\* C15: for every gnn_type in gin, gcn, gat, graphsage and both domains, a
\* forward of the encoder with (x, edge_index, edge_attr, prompt) runs every
\* layer and returns the node representation.
C15_KindsInterchangeable ==
    (fwd_in.cls = "FwdIn" /\ cfg.cls = "GNN" /\ cfg.gnn_type \in KnownGnnTypes
        /\ cfg.JK = "last" /\ fwd_in.nargs = 4) =>
        /\ fwd_res.exc = "none"
        /\ fwd_res.returned = 1
        /\ Len(fwd_res.layers) = cfg.num_layer

\* the number of edges of the index whose target is v
InDegree(edges, v) == Cardinality({k \in 1..Len(edges) : edges[k][2] = v})

\* C18: on an edge index that holds the self-loops, the weight norm gives
\* edge (i -> j) is deg(i) ** -0.5 * deg(j) ** -0.5 with deg(v) the number
\* of edges whose target is v, for directed graphs too.
C18_NormIsInDegree ==
    (norm_res # NoNormRes /\ norm_in.augmented) =>
        \A k \in 1..Len(norm_in.edges) :
            norm_res.weights[k] =
                SqrtMul(DegInvSqrt(InDegree(norm_in.edges, norm_in.edges[k][1])),
                        DegInvSqrt(InDegree(norm_in.edges, norm_in.edges[k][2])))

\* C19: whatever set_prompt, forward and update calls a chem GINConv gets,
\* its modify stays -1 and update never calls modify_aggr_out.
C19_HookInactive ==
    gin # None => gin.modify = 0 - 1 /\ hook_calls.modify_aggr_out = 0

\* a layer that was given a prompt and a gating, then ran forward and update
C19_Witness ==
    /\ gin # None
    /\ gin.prompt # None /\ gin.gating_m = MaxGating
    /\ gin.x # None /\ gin.aggr_x # None
    /\ hook_calls.set_prompt >= 1 /\ hook_calls.forward >= 1 /\ hook_calls.update >= 1


(***************************************************************************)
(* Claims about the auxiliary output and the driver's prompt.              *)
(***************************************************************************)
\* C21: in any sequence of forward calls on a GIN layer of either domain,
\* the aggregate a call returns beside its output is the one update stored
\* during that same call: never the one an earlier call left in
\* self.aggr_x, never the initial None.
C21_NoStaleAggregate ==
    \A k \in 1..Len(g_rets) :
        g_rets[k].exc = "none" =>
            g_rets[k].stored /\ g_rets[k].aux = AggrOf(k)

\* a call returned after an earlier call had left its aggregate in
\* self.aggr_x (one that returned, and one that raised after update)
C21_Witness ==
    /\ Len(g_rets) = MaxAuxCalls
    /\ g_rets[1].exc # "none" /\ g_rets[1].stored
    /\ g_rets[2].exc = "none"
    /\ g_rets[MaxAuxCalls].exc = "none"
    /\ glayer.conv.aggr_x = AggrOf(MaxAuxCalls)

\* C22: whatever --tuning_type is, main never uses prompt before it is
\* bound: with an accepted --split and a --tuning_type other than gpfe main
\* still gets past the construction of the parameter groups, to its epochs.
C22_PromptDefinedBeforeUse ==
    (args.tuning_type # "gpfe" /\ args.split = "species") =>
        (d_pc # "raised" /\ d_exc # "UnboundLocalError")

=============================================================================
